---- MODULE Spec2Model ----
(***************************************************************************)
(* A model of flaml/integrations/oai/completion.py: the request key, the   *)
(* response cache, Completion._get_response (cache lookup, retry loop,     *)
(* poisoning), the region index, Completion.eval (staged evaluation of one *)
(* trial), Completion.tune and Completion.create.                          *)
(*                                                                         *)
(* Conventions.                                                            *)
(*  - A Python dict is a sequence of <<key, value>> pairs in insertion     *)
(*    order; a Python list is a sequence; None is the empty sequence and   *)
(*    an optional number x is <<x>>.                                       *)
(*  - Money is counted in units of 1e-7 dollars, so that the price of one  *)
(*    token (price1K / 1000) is a whole number; every cost of the source    *)
(*    is the modelled value times 1e-7.  Arithmetic is exact (the source   *)
(*    computes in binary floating point).                                  *)
(*  - Time is counted in seconds; `elapsed' is time.time() - start_time.   *)
(***************************************************************************)
EXTENDS Integers, Sequences, FiniteSets, TLC

(***************************************************************************)
(* Bounds of the model.                                                    *)
(***************************************************************************)
\* the clock of one _get_response call is followed up to this many seconds
MaxElapsed == 60
\* the number of calls of tune and eval made by callers
MaxCalls == 3

(***************************************************************************)
(* The state.                                                              *)
(***************************************************************************)
VARIABLES
    api_type,           \* openai.api_type
    verbosity,          \* the output tokens the endpoint spends per completion
    scenario,           \* which inputs the callers and the search give
    cache,              \* cls._cache: key -> response or PoisonedFailure
    gr,                 \* the activation of _get_response: locals, position
    tuned,              \* tune has set cls.data and the tables below
    data_length,        \* len(cls.data); the instances are 0..data_length-1
    inference_budget,   \* cls.inference_budget, optional
    optimization_budget,\* cls.optimization_budget, optional
    avg_input_tokens,   \* cls.avg_input_tokens: None or <<a quotient>>
    total_cost,         \* cls._total_cost
    max_valid_n_per_max_tokens,    \* cls._max_valid_n_per_max_tokens
    min_invalid_n_per_max_tokens,  \* cls._min_invalid_n_per_max_tokens
    prompts,            \* cls._prompts: None or a list of templates
    messages,           \* cls._messages: a list of lists of message dicts
    stops,              \* cls._stops: None or a list of stops
    mode,               \* cls._mode
    prune_hp,           \* cls._prune_hp
    ev,                 \* the activation of eval: its locals and position
    run,                \* tune.run: the loop that calls eval, trial by trial
    last,               \* what the last finished call of eval did
    reported,           \* the sum of the costs eval returned since tune began
    calls,              \* the number of calls callers have made
    poisoned,           \* the keys _get_response has poisoned so far
    marks               \* the updates of the region index since tune reset it

\* the environment of the program
env == <<api_type, verbosity, scenario>>

\* the class attributes only tune writes
clsFixed ==
    <<tuned, data_length, inference_budget, optimization_budget, prompts,
      messages, stops, mode, prune_hp>>

clsVars ==
    <<clsFixed, avg_input_tokens, total_cost, max_valid_n_per_max_tokens,
      min_invalid_n_per_max_tokens>>

\* the state of eval and of its callers
evalVars == <<clsVars, ev, run, last, reported, calls>>

vars == <<env, cache, gr, evalVars, poisoned, marks>>

(***************************************************************************)
(* Program constants.                                                      *)
(***************************************************************************)
retry_time == 10
retry_timeout == 60

None == <<>>
Some(x) == <<x>>

chat_models ==
    {"gpt-3.5-turbo", "gpt-3.5-turbo-0301", "gpt-4", "gpt-4-32k",
     "gpt-4-32k-0314", "gpt-4-0314"}

\* the time one attempt of the endpoint takes, in seconds
CallDurations == {20}
\* the number of output tokens an endpoint spends on one completion
TokensPerCompletion == {10}

(***************************************************************************)
(* Python dicts.                                                           *)
(***************************************************************************)
DictHas(d, k) == \E j \in 1..Len(d) : d[j][1] = k

DictGet(d, k, default) ==
    IF DictHas(d, k) THEN d[CHOOSE j \in 1..Len(d) : d[j][1] = k][2]
    ELSE default

DictSet(d, k, v) ==
    IF DictHas(d, k)
    THEN [j \in 1..Len(d) |-> IF d[j][1] = k THEN <<k, v>> ELSE d[j]]
    ELSE Append(d, <<k, v>>)

DictPop(d, k) == SelectSeq(d, LAMBDA e : e[1] # k)

\* every key a config or a request can hold, in the order of Python's
\* string comparison
KeyOrder ==
    <<"best_of", "engine", "max_tokens", "messages", "model", "n", "prompt",
      "stop", "temperature", "temperature_or_top_p", "top_p">>

\* line 37 without sorted(): the items in their insertion order
InsertionItems(d) == d

\* sorted(config.items()): the keys of a dict are distinct, so the items
\* are ordered by key alone
SortedItems(d) ==
    LET ks == SelectSeq(KeyOrder, LAMBDA k : DictHas(d, k))
    IN  [j \in 1..Len(ks) |-> <<ks[j], DictGet(d, ks[j], None)>>]

\* get_key of a dict: the tuple of its items sorted by key; an item is a
\* tuple, which get_key returns as it is
get_key(config) == SortedItems(config)

\* Python's == of two values held under key k: the messages are a list of
\* dicts, and two dicts are equal when they hold the same keys with equal
\* values, in whatever order; the other values are scalars and lists of
\* scalars
FlatDictEq(d, e) ==
    /\ Len(d) = Len(e)
    /\ \A j \in 1..Len(d) :
         DictHas(e, d[j][1]) /\ DictGet(e, d[j][1], None) = d[j][2]

ValueEq(k, v, w) ==
    IF k = "messages"
    THEN Len(v) = Len(w) /\ \A j \in 1..Len(v) : FlatDictEq(v[j], w[j])
    ELSE v = w

\* Python's == of two dicts of request parameters
ParamsEq(p, q) ==
    /\ Len(p) = Len(q)
    /\ \A j \in 1..Len(p) :
         /\ DictHas(q, p[j][1])
         /\ ValueEq(p[j][1], p[j][2], DictGet(q, p[j][1], None))

\* Python's == of two keys: tuples of (key, value) tuples
KeyEq(a, b) ==
    /\ Len(a) = Len(b)
    /\ \A j \in 1..Len(a) :
         a[j][1] = b[j][1] /\ ValueEq(a[j][1], a[j][2], b[j][2])

(***************************************************************************)
(* Templates and requests.                                                 *)
(***************************************************************************)
\* strings without a placeholder: str.format returns them unchanged
PlaceholderFree == {"user", "system"}

\* template.format(**data_i), or template(data_i) for a callable template:
\* the text a template yields for a data instance
Format(template, data_i) ==
    IF template \in PlaceholderFree THEN template ELSE <<template, data_i>>

\* the number of input tokens the endpoint counts for a request: a
\* function of the rendered prompt (or of the rendered messages)
PromptTokens(config) ==
    IF DictHas(config, "prompt")
    THEN 3 + DictGet(config, "prompt", None)[2]
    ELSE 4 + DictGet(DictGet(config, "messages", None)[1], "content", None)[2]

(***************************************************************************)
(* Responses.                                                              *)
(***************************************************************************)
\* the sentinel -1 that _get_response caches and returns
PoisonedFailure ==
    [kind |-> "poison", n_choices |-> 0, prompt_tokens |-> 0,
     completion_tokens |-> 0]

\* the response of the endpoint to a request, when it spends t output
\* tokens on each completion: as many choices as the request's n, and the
\* usage of all the completions it generated
EndpointResponse(config, t) ==
    [kind |-> "ok", n_choices |-> DictGet(config, "n", 1),
     prompt_tokens |-> PromptTokens(config),
     completion_tokens |->
         DictGet(config, "best_of", DictGet(config, "n", 1)) * t]


\* a cache whose lookups always miss
CacheGetMiss(c, key) == None

\* cls._cache.get(key, None)
CacheGet(c, key) == IF key \in DOMAIN c THEN Some(c[key]) ELSE None

\* cls._cache.set(key, value) on a cache that keeps its last entry only
CacheSetOnly(c, key, value) == [k \in {key} |-> value]

\* cls._cache.set(key, value)
CacheSet(c, key, value) ==
    [k \in DOMAIN c \cup {key} |-> IF k = key THEN value ELSE c[k]]

GrIdle ==
    [pc |-> "none", via |-> "none", config |-> <<>>, key |-> <<>>, eval_only |-> FALSE,
     cached |-> None, elapsed |-> 0, remote |-> FALSE, last_error |-> "none",
     response |-> None,
     \* the mapping the caller passed, and the number of renames so far
     params |-> <<>>, n_renames |-> 0,
     \* for calls of get_key alone: the bundle of the call before, its key
     other |-> <<>>, other_key |-> <<>>]

\* line 128 with the test of eval_only inverted: the cached poison is
\* returned to an eval_only call and is treated as absent otherwise
UseCachedInverted(cached, eval_only) ==
    cached # None /\ (cached[1] # PoisonedFailure \/ eval_only)

\* line 128 without the test of eval_only: the cached poison is always
\* treated as absent
UseCachedNoPoison(cached, eval_only) ==
    cached # None /\ cached[1] # PoisonedFailure

\* line 128: the cached value is returned when there is one, unless it is
\* the poison and the call is an eval_only call
UseCached(cached, eval_only) ==
    cached # None /\ (cached[1] # PoisonedFailure \/ ~eval_only)

\* lines 126-136 of _get_response(config, eval_only): the cache lookup;
\* the cached value is returned, or the retry loop is entered
get_response_enter(config, eval_only) ==
    LET key == get_key(config)
        cached == CacheGet(cache, key)
    IN  /\ gr' = [GrIdle EXCEPT
                    !.via = "_get_response",
                    !.pc = IF UseCached(cached, eval_only) THEN "ret" ELSE "try",
                    !.config = config, !.key = key, !.eval_only = eval_only,
                    !.params = config, !.cached = cached,
                    !.response = IF UseCached(cached, eval_only)
                                 THEN cached ELSE None]
        /\ UNCHANGED <<env, cache>>

\* line 152 with <= for <
RetryAllowedInclusive(elapsed_now) == elapsed_now + retry_time <= retry_timeout

\* line 152: a rate-limit error or a timeout is retried while this holds
RetryAllowed(elapsed_now) == elapsed_now + retry_time < retry_timeout

\* lines 152-155 without the test of eval_only
GiveUpAlways(elapsed_now, eval_only) == ~RetryAllowed(elapsed_now)

\* lines 152-155: the retry loop is left (break) on a rate-limit error
GiveUp(elapsed_now, eval_only) == ~RetryAllowed(elapsed_now) /\ ~eval_only

\* lines 139-141: the endpoint answers; the response is cached under the
\* key of the original config and returned (the clock of the call ends
\* with the call)
EndpointSuccess ==
    /\ gr.pc = "try"
    /\ \E d \in CallDurations :
         LET r == EndpointResponse(gr.config, verbosity)
         IN  /\ cache' = CacheSet(cache, gr.key, r)
             /\ gr' = [gr EXCEPT !.pc = "ret", !.response = Some(r),
                                 !.elapsed = 0, !.remote = TRUE,
                                 !.last_error = "none"]
    /\ UNCHANGED <<env, evalVars, poisoned, marks>>

\* lines 142-149: ServiceUnavailableError, APIError, APIConnectionError:
\* sleep retry_time and try again
EndpointTransient ==
    /\ gr.pc = "try"
    /\ \E d \in CallDurations :
         /\ gr.elapsed + d + retry_time <= MaxElapsed
         /\ gr' = [gr EXCEPT !.elapsed = @ + d + retry_time,
                             !.remote = TRUE, !.last_error = "transient"]
    /\ UNCHANGED <<env, cache, evalVars, poisoned, marks>>

\* lines 150-156 and 164-169: RateLimitError, Timeout
EndpointRateLimit ==
    /\ gr.pc = "try"
    /\ \E d \in CallDurations :
         IF GiveUp(gr.elapsed + d, gr.eval_only)
         THEN \* break: poison the key and return the poison
              /\ cache' = CacheSet(cache, gr.key, PoisonedFailure)
              /\ poisoned' = poisoned \cup {gr.key}
              /\ gr' = [gr EXCEPT !.pc = "ret",
                                  !.response = Some(PoisonedFailure),
                                  !.elapsed = 0, !.remote = TRUE,
                                  !.last_error = "rate_limit"]
         ELSE /\ gr.elapsed + d + retry_time <= MaxElapsed
              /\ UNCHANGED <<cache, poisoned>>
              /\ gr' = [gr EXCEPT !.elapsed = @ + d + retry_time,
                                  !.remote = TRUE,
                                  !.last_error = "rate_limit"]
    /\ UNCHANGED <<env, evalVars, marks>>

\* line 161 without the pop: "engine" is added and "model" stays
AzureRenameKeepModel(config) ==
    Append(config, <<"engine", DictGet(config, "model", None)>>)

\* lines 160-161: a copy of the config in which "model" is popped and its
\* value is set under "engine"
AzureRename(config) ==
    Append(DictPop(config, "model"), <<"engine", DictGet(config, "model", None)>>)

\* lines 157-163: InvalidRequestError: on azure, "model" becomes "engine"
\* in a copy of the config and the call is tried again; otherwise the
\* error is raised to the caller.  The mapping of the caller (params) is
\* not the copy: it stays as it is
EndpointInvalidRequest ==
    /\ gr.pc = "try"
    /\ \E d \in CallDurations :
         /\ gr.elapsed + d <= MaxElapsed
         /\ IF api_type = "azure" /\ DictHas(gr.config, "model")
            THEN gr' = [gr EXCEPT
                     !.config = AzureRename(@),
                     !.n_renames = @ + 1,
                     !.elapsed = @ + d, !.remote = TRUE,
                     !.last_error = "invalid_request"]
            ELSE gr' = [gr EXCEPT !.pc = "raised", !.elapsed = 0,
                                  !.remote = TRUE,
                                  !.last_error = "invalid_request"]
    /\ UNCHANGED <<env, cache, evalVars, poisoned, marks>>

(***************************************************************************)
(* Numbers.  A quotient is kept as <<numerator, denominator>> with a        *)
(* positive denominator; <<1, 0>> is +inf and <<-1, 0>> is -inf.            *)
(***************************************************************************)
Inf == <<1, 0>>
NegInf == <<-1, 0>>

Max2(a, b) == IF a >= b THEN a ELSE b
Min2(a, b) == IF a <= b THEN a ELSE b

RECURSIVE SeqSum(_)
SeqSum(s) == IF s = <<>> THEN 0 ELSE s[1] + SeqSum(Tail(s))

\* Python truthiness of an optional number
Truthy(opt) == opt # None /\ opt[1] # 0

(***************************************************************************)
(* Class attributes of Completion.                                         *)
(***************************************************************************)
\* price1K, in units of 1e-7 dollars per token: a number or a pair
price1K(model) ==
    CASE model = "text-ada-001" -> <<4>>
      [] model = "text-babbage-001" -> <<5>>
      [] model = "text-curie-001" -> <<20>>
      [] model = "code-cushman-001" -> <<240>>
      [] model = "code-davinci-002" -> <<1000>>
      [] model = "text-davinci-002" -> <<200>>
      [] model = "text-davinci-003" -> <<200>>
      [] model = "gpt-3.5-turbo" -> <<20>>
      [] model = "gpt-3.5-turbo-0301" -> <<20>>
      [] model = "gpt-4" -> <<300, 600>>
      [] model = "gpt-4-0314" -> <<300, 600>>
      [] model = "gpt-4-32k" -> <<600, 1200>>
      [] model = "gpt-4-32k-0314" -> <<600, 1200>>

\* lines 235-237: price if isinstance(price, tuple) else (price, price)
PricePair(price) == IF Len(price) = 2 THEN price ELSE <<price[1], price[1]>>

\* cls._metric: the name of the metric (one name is enough)
metric == "success"

\* dict.get(key, {}) of a region map
RegionGet(m, key) == IF key \in DOMAIN m THEN m[key] ELSE <<>>

\* lines 172-182 with k <= max_tokens for k >= max_tokens
get_max_valid_n_below(key, max_tokens) ==
    LET d == RegionGet(max_valid_n_per_max_tokens, key)
        vs == {d[k] : k \in {x \in DOMAIN d : x <= max_tokens}}
    IN  IF vs = {} THEN 1 ELSE CHOOSE v \in vs : \A w \in vs : w <= v

\* lines 172-182
get_max_valid_n(key, max_tokens) ==
    LET d == RegionGet(max_valid_n_per_max_tokens, key)
        vs == {d[k] : k \in {x \in DOMAIN d : x >= max_tokens}}
    IN  IF vs = {} THEN 1 ELSE CHOOSE v \in vs : \A w \in vs : w <= v

\* lines 184-195 with k >= max_tokens for k <= max_tokens
get_min_invalid_n_above(key, max_tokens) ==
    LET d == RegionGet(min_invalid_n_per_max_tokens, key)
        vs == {d[k] : k \in {x \in DOMAIN d : x >= max_tokens}}
    IN  IF vs = {} THEN None ELSE Some(CHOOSE v \in vs : \A w \in vs : v <= w)

\* lines 184-195: None when no key qualifies
get_min_invalid_n(key, max_tokens) ==
    LET d == RegionGet(min_invalid_n_per_max_tokens, key)
        vs == {d[k] : k \in {x \in DOMAIN d : x <= max_tokens}}
    IN  IF vs = {} THEN None ELSE Some(CHOOSE v \in vs : \A w \in vs : v <= w)

\* dict.get(key) as an optional value
DictGetOpt(d, k) == IF DictHas(d, k) THEN Some(DictGet(d, k, None)) ELSE None

\* lines 197-204
get_region_key(config) ==
    <<DictGet(config, "model", None),
      DictGet(config, "prompt", DictGet(config, "messages", None)),
      DictGetOpt(config, "stop")>>

\* m[key][max_tokens] = value, on a region map
RegionSet(m, key, max_tokens, value) ==
    LET d == RegionGet(m, key)
        d2 == [k \in DOMAIN d \cup {max_tokens} |->
                  IF k = max_tokens THEN value ELSE d[k]]
    IN  [r \in DOMAIN m \cup {key} |-> IF r = key THEN d2 ELSE m[r]]

\* lines 207-215: the new value of cls._min_invalid_n_per_max_tokens
update_invalid_n(prune, region_key, max_tokens, num_completions) ==
    IF prune
    THEN LET d == RegionGet(min_invalid_n_per_max_tokens, region_key)
         IN  RegionSet(min_invalid_n_per_max_tokens, region_key, max_tokens,
                       IF max_tokens \in DOMAIN d
                       THEN Min2(num_completions, d[max_tokens])
                       ELSE num_completions)
    ELSE min_invalid_n_per_max_tokens

\* the updates of the region index so far, with one more: n is marked
\* valid or invalid for (region_key, max_tokens) when `on' holds (lines
\* 208 and 414-419)
Marked(kind, on, region_key, max_tokens, num_completions) ==
    IF on THEN marks \cup {<<kind, region_key, max_tokens, num_completions>>}
    ELSE marks

\* lines 414-419 with min for max
update_valid_n_least(region_key, max_tokens, num_completions) ==
    LET d == RegionGet(max_valid_n_per_max_tokens, region_key)
    IN  RegionSet(max_valid_n_per_max_tokens, region_key, max_tokens,
                  Min2(num_completions,
                       IF max_tokens \in DOMAIN d THEN d[max_tokens] ELSE 0))

\* lines 414-419: the new value of cls._max_valid_n_per_max_tokens
update_valid_n(region_key, max_tokens, num_completions) ==
    LET d == RegionGet(max_valid_n_per_max_tokens, region_key)
    IN  RegionSet(max_valid_n_per_max_tokens, region_key, max_tokens,
                  Max2(num_completions,
                       IF max_tokens \in DOMAIN d THEN d[max_tokens] ELSE 0))

(***************************************************************************)
(* Completion.eval: the activation record and the arithmetic.              *)
(***************************************************************************)
EvIdle ==
    [pc |-> "idle", config |-> <<>>, prune |-> FALSE, eval_only |-> FALSE,
     cost |-> 0, price_input |-> 0, price_output |-> 0, config_n |-> 0,
     max_tokens |-> 0, prompt |-> None, messages |-> None,
     target_output_tokens |-> None, input_tokens |-> <<>>,
     region_key |-> None, params |-> <<>>, num_completions |-> 0,
     previous_num_completions |-> 0, n_tokens_list |-> <<>>,
     responses_list |-> <<>>, data_limit |-> 0, prev_data_limit |-> 0,
     data_early_stop |-> FALSE, i |-> 0,
     \* bookkeeping of the model, not locals of the source
     n_calls |-> 0, n_remote |-> 0, sum_in |-> 0, sum_out |-> 0,
     got_poison |-> FALSE, prune_arg |-> FALSE, entry_max_valid_n |-> 0,
     entry_min_invalid_n |-> None, start_n |-> 0, stages |-> <<>>,
     after_early_stop |-> <<>>, requests |-> <<>>]

\* what is kept of a finished activation
Summary(e) ==
    [config |-> e.config, prune_arg |-> e.prune_arg, prune |-> e.prune,
     eval_only |-> e.eval_only, config_n |-> e.config_n,
     max_tokens |-> e.max_tokens, region_key |-> e.region_key,
     price_input |-> e.price_input, price_output |-> e.price_output,
     cost |-> e.cost, num_completions |-> e.num_completions,
     data_limit |-> e.data_limit, n_calls |-> e.n_calls,
     n_remote |-> e.n_remote, sum_in |-> e.sum_in, sum_out |-> e.sum_out,
     got_poison |-> e.got_poison,
     entry_max_valid_n |-> e.entry_max_valid_n,
     entry_min_invalid_n |-> e.entry_min_invalid_n,
     start_n |-> e.start_n, stages |-> e.stages,
     after_early_stop |-> e.after_early_stop,
     target_output_tokens |-> e.target_output_tokens,
     requests |-> e.requests,
     response_counts |-> [j \in 1..Len(e.responses_list) |->
                             Len(e.responses_list[j])]]

NoLast ==
    [status |-> "none", path |-> "none", result |-> <<>>, in_run |-> FALSE,
     trial |-> 0, ev |-> Summary(EvIdle)]

\* lines 270-272 and 450-452: (inference_budget * 1000 - avg_input_tokens *
\* price_input) / price_output, as a quotient
TargetOutputTokens(budget, avg_in, price_input, price_output) ==
    <<budget * avg_in[2] - avg_in[1] * price_input, avg_in[2] * price_output>>

\* int(target_output_tokens // max_tokens)
FloorDiv(q, m) == q[1] \div (q[2] * m)

\* Python truthiness of an optional quotient
TruthyQ(opt) == opt # None /\ opt[1][1] # 0

\* lines 384-390: (rho / data_limit) as a quotient, where ratio is
\* 0.1 * sqrt(rho / data_limit)
RhoOverLimit(t, n) ==
    IF 2 * t > n THEN <<(n - t) * (t + 1), n * t * t>>
    ELSE <<n - t + 1, n * t>>

\* line 393 with ten times the target: avg_n_tokens > 10 *
\* target_output_tokens * (1 + ratio)
OverTargetTenfold(s, l, target, rr) ==
    LET a == s * target[2] - 10 * l * target[1]
        b == 10 * l * target[1]
    IN  IF target[1] < 0 THEN TRUE
        ELSE a > 0 /\ a * a * 100 * rr[2] > b * b * rr[1]

\* line 393: avg_n_tokens > target_output_tokens * (1 + ratio), where
\* avg_n_tokens is s / l, and ratio is 0.1 * sqrt(rr)
OverTarget(s, l, target, rr) ==
    LET a == s * target[2] - l * target[1]
        b == l * target[1]
    IN  IF target[1] < 0 THEN TRUE
        ELSE a > 0 /\ a * a * 100 * rr[2] > b * b * rr[1]

\* line 406: avg_n_tokens <= target_output_tokens * (1 - ratio)
UnderTarget(s, l, target, rr) ==
    LET c == l * target[1] - s * target[2]
        b == l * target[1]
    IN  IF target[1] < 0 THEN FALSE
        ELSE c >= 0 /\ c * c * 100 * rr[2] >= b * b * rr[1]

\* lines 359-361 without the price of the input tokens
query_cost_output(price_input, price_output, n_in, n_out) ==
    price_output * n_out

\* lines 359-361: the cost of one response
query_cost(price_input, price_output, n_input_tokens, n_output_tokens) ==
    price_input * n_input_tokens + price_output * n_output_tokens

\* lines 364-368: the tuning budget is spent
BudgetSpent(budget, total, eval_only) ==
    Truthy(budget) /\ total >= budget[1] /\ ~eval_only

\* line 283 with > for >=
PruneNowStrict(config_n, min_invalid_n) ==
    min_invalid_n # None /\ config_n > min_invalid_n[1]

\* line 283: the config is pruned without a call
PruneNow(config_n, min_invalid_n) ==
    min_invalid_n # None /\ config_n >= min_invalid_n[1]

\* dict.update
RECURSIVE DictUpdate(_, _)
DictUpdate(d, e) ==
    IF e = <<>> THEN d ELSE DictUpdate(DictSet(d, e[1][1], e[1][2]), Tail(e))

\* the choices of a response: as many texts as n_choices
Choices(r) == [j \in 1..r.n_choices |-> j]

\* cls._eval_func(responses, **data_i): the metrics of one instance
eval_func(responses, data_i) == <<<<metric, Len(responses)>>>>

\* lines 301-304: the head of the loop over n
OuterHead(e) ==
    [e EXCEPT !.params = DictSet(@, prune_hp,
                             e.num_completions - e.previous_num_completions),
              !.data_limit = IF e.prune THEN 1 ELSE data_length,
              !.prev_data_limit = 0,
              !.data_early_stop = FALSE,
              !.i = 0,
              !.pc = "request",
              \* bookkeeping: the stage, as <<numCompletions, per-call n>>
              !.stages = Append(@, <<e.num_completions,
                             e.num_completions - e.previous_num_completions>>),
              \* bookkeeping: the stage before ended by a data early stop
              !.after_early_stop = Append(@, e.data_early_stop)]

(***************************************************************************)
(* Completion.tune: the arguments, the search space and the class state.   *)
(***************************************************************************)
\* a value a caller passes, with its Python type
Str(x) == [type |-> "str", v |-> x]
List(xs) == [type |-> "list", v |-> xs]
Dict(d) == [type |-> "dict", v |-> d]
Choice(xs) == [type |-> "choice", v |-> xs]

\* the largest n (or best_of) a proposed config carries
MaxN == 2
\* the values of max_tokens a proposed config carries
MaxTokensChoices == {50, 100}
\* the sampled values of temperature_or_top_p
SamplingChoices == {<<<<"temperature", 1>>>>}
\* len(data) of the data sets given to tune
DataLengths == {2}
Modes == {"min", "max"}
\* the budgets given to tune, in units of 1e-7 dollars
InferenceBudgets == {None, Some(100)}
OptimizationBudgets == {None, Some(0), Some(150)}
\* num_samples given to tune
NumSamples == {1, 2}

\* the search-space arguments (**config) given to tune, by number
NumSpaceArgs == 3
\* a list of one message
OneMessage == List(<<Dict(<<<<"role", "user">>, <<"content", "m0">>>>)>>)
SpaceArgs(k) ==
    CASE k = 1 -> <<<<"model", Choice(<<"text-ada-001", "gpt-4">>)>>>>
      [] k = 2 -> <<<<"model", Str("gpt-4")>>, <<"messages", OneMessage>>>>
      [] k = 3 -> <<<<"model", Str("gpt-4")>>, <<"messages", Str("m0")>>>>
      \* a prompt and messages
      [] k = 4 -> <<<<"model", Str("gpt-4")>>, <<"prompt", Str("p0")>>,
                    <<"messages", OneMessage>>>>
      [] k = 5 -> <<<<"model", Str("text-ada-001")>>>>
      \* a stop that is a dict, and one that is an empty dict
      [] k = 6 -> <<<<"model", Str("text-ada-001")>>,
                    <<"stop", Dict(<<<<"a", "b">>>>)>>>>
      [] k = 7 -> <<<<"model", Str("text-ada-001")>>, <<"stop", Dict(<<>>)>>>>
      \* messages for a model that is not a chat model
      [] OTHER -> <<<<"model", Str("text-ada-001")>>,
                    <<"messages", OneMessage>>>>

\* lines 76-95, as far as the model follows the space: the sampling
\* domains are the sets above
default_search_space ==
    <<<<"model", Choice(<<"text-ada-001", "text-babbage-001",
                          "text-davinci-003", "gpt-3.5-turbo", "gpt-4">>)>>,
      <<"temperature_or_top_p", Choice(<<>>)>>,
      <<"max_tokens", Choice(<<>>)>>,
      <<"n", Choice(<<>>)>>,
      <<"prompt", Str("{prompt}")>>>>

\* lines 533-537: the defaults, updated with the arguments; messages
\* replace the prompt
TuneSpace(config) ==
    LET space == DictUpdate(default_search_space, config)
    IN  IF DictHas(space, "messages") THEN DictPop(space, "prompt") ELSE space

\* line 554
TunePruneHp(space) ==
    IF DictGet(space, "best_of", 1) # 1 THEN "best_of" ELSE "n"

\* line 575, `if cls._stops:': the stop is given and is not empty
TruthyStop(st) ==
    st # None /\ (IF st[1].type = "str" THEN st[1].v # "" ELSE st[1].v # <<>>)

\* lines 555-581: the assertion that fails, or "ok"
TuneCheck(space) ==
    LET p == DictGetOpt(space, "prompt")
        m == DictGetOpt(space, "messages")
        st == DictGetOpt(space, "stop")
    IN  IF p = None
        THEN IF m # None /\ m[1].type = "list" /\ Len(m[1].v) > 0
                /\ m[1].v[1].type \in {"dict", "list"}
             THEN IF TruthyStop(st) /\ st[1].type \notin {"str", "list"}
                  THEN "stop must be a string or a list"
                  ELSE "ok"
             ELSE "messages must be a list"
        ELSE IF m # None
             THEN "messages and prompt cannot be provided at the same time"
             ELSE IF p[1].type \notin {"str", "list"}
                  THEN "prompt must be a string or a list"
                  ELSE IF TruthyStop(st) /\ st[1].type \notin {"str", "list"}
                       THEN "stop must be a string or a list"
                       ELSE "ok"

\* the values of a list argument, without their types
Untyped(xs) == [j \in 1..Len(xs) |-> xs[j].v]

\* lines 555 and 571-572: cls._prompts
TunePrompts(space) ==
    LET p == DictGetOpt(space, "prompt")
    IN  IF p = None THEN None
        ELSE IF p[1].type = "str" THEN <<p[1].v>> ELSE p[1].v

\* lines 557-562: cls._messages, a list of lists of message dicts
TuneMessages(space) ==
    LET m == DictGet(space, "messages", None)
    IN  IF m.v[1].type = "dict" THEN <<Untyped(m.v)>>
        ELSE [j \in 1..Len(m.v) |-> Untyped(m.v[j].v)]

\* lines 574-580: cls._stops
TuneStops(space) ==
    LET st == DictGetOpt(space, "stop")
    IN  IF ~TruthyStop(st) THEN None
        ELSE IF st[1].type = "list" /\ Len(st[1].v) > 0
                /\ st[1].v[1].type = "list"
             THEN [j \in 1..Len(st[1].v) |-> Untyped(st[1].v[j].v)]
             ELSE IF st[1].type = "list" THEN <<Untyped(st[1].v)>>
                  ELSE <<st[1].v>>

\* the models of the space
SpaceModels(space) ==
    LET m == DictGet(space, "model", None)
    IN  IF m.type = "str" THEN {m.v} ELSE {m.v[j] : j \in 1..Len(m.v)}

\* the arguments <<prune, eval_only>> callers give to eval: the defaults,
\* a call without pruning, and the evaluation of a tuned config
EvalArgs == {<<TRUE, FALSE>>, <<FALSE, FALSE>>, <<TRUE, TRUE>>}

\* the inputs of a scenario: what callers give to tune and to eval, what
\* the search proposes, and what the endpoint spends.  "base" crosses the
\* arguments of tune; "generous" and "tight" follow one model through
\* trials of larger n under a budget that affords them or does not;
\* "shapes" gives tune the templates it accepts and those it rejects.
Inputs(s) ==
    CASE s = "generous" ->
           [space_args |-> {5}, data_lengths |-> {2},
            modes |-> {"min", "max"}, inference_budgets |-> {Some(400)},
            optimization_budgets |-> {None}, num_samples |-> {2},
            ns |-> {4, 5, 8}, max_tokens |-> {20, 50, 100},
            eval_args |-> {}, calls |-> MaxCalls,
            verbosities |-> {10}]
      [] s = "tight" ->
           [space_args |-> {5}, data_lengths |-> {2},
            modes |-> {"max"}, inference_budgets |-> {Some(100)},
            optimization_budgets |-> {None}, num_samples |-> {3},
            ns |-> {1, 2, 4}, max_tokens |-> {20, 50},
            eval_args |-> {<<TRUE, FALSE>>}, calls |-> MaxCalls + 1,
            verbosities |-> {10, 100}]
      [] s = "shapes" ->
           [space_args |-> 2..8, data_lengths |-> {2},
            modes |-> {"max"}, inference_budgets |-> {None},
            optimization_budgets |-> {None}, num_samples |-> {1},
            ns |-> {1}, max_tokens |-> {50},
            eval_args |-> {<<TRUE, FALSE>>}, calls |-> MaxCalls,
            verbosities |-> {10}]
      [] s = "long" ->
           [space_args |-> {5}, data_lengths |-> {1, 3},
            modes |-> {"max"}, inference_budgets |-> {None, Some(100)},
            optimization_budgets |-> {None}, num_samples |-> {2},
            ns |-> {1, 3, 4}, max_tokens |-> {50},
            eval_args |-> {<<TRUE, FALSE>>, <<FALSE, TRUE>>},
            calls |-> MaxCalls, verbosities |-> {10}]
      [] OTHER ->
           [space_args |-> 1..NumSpaceArgs, data_lengths |-> DataLengths,
            modes |-> Modes, inference_budgets |-> InferenceBudgets,
            optimization_budgets |-> OptimizationBudgets,
            num_samples |-> NumSamples, ns |-> 1..MaxN,
            max_tokens |-> MaxTokensChoices, eval_args |-> EvalArgs,
            calls |-> MaxCalls, verbosities |-> TokensPerCompletion]

\* args: the **config tune was called with
NoRun == [active |-> FALSE, trials |-> 0, num_samples |-> 0,
          cost_used |-> 0, models |-> {}, args |-> <<>>]

\* tune(data, metric, mode, eval_func, inference_budget=...,
\* optimization_budget=..., num_samples=..., **config), lines 533-615, up
\* to the first trial of tune.run
Tune ==
    /\ ev.pc = "idle" /\ gr.pc # "try" /\ ~run.active
    /\ calls < Inputs(scenario).calls
    /\ \E k \in Inputs(scenario).space_args,
          n \in Inputs(scenario).data_lengths,
          md \in Inputs(scenario).modes,
          ib \in Inputs(scenario).inference_budgets,
          ob \in Inputs(scenario).optimization_budgets,
          ns \in Inputs(scenario).num_samples :
         LET space == TuneSpace(SpaceArgs(k))
             ok == TuneCheck(space) = "ok"
         IN  /\ max_valid_n_per_max_tokens' = <<>>
             /\ min_invalid_n_per_max_tokens' = <<>>
             /\ optimization_budget' = ob
             /\ inference_budget' = ib
             /\ prune_hp' = TunePruneHp(space)
             /\ prompts' = TunePrompts(space)
             /\ messages' = IF TunePrompts(space) # None THEN messages
                            ELSE IF ok THEN TuneMessages(space)
                            ELSE Some(DictGet(space, "messages", None))
             /\ stops' = IF ok THEN TuneStops(space) ELSE stops
             /\ mode' = IF ok THEN md ELSE mode
             /\ total_cost' = IF ok THEN 0 ELSE total_cost
             /\ data_length' = IF ok THEN n ELSE data_length
             /\ avg_input_tokens' = IF ok THEN None ELSE avg_input_tokens
             /\ tuned' = ok
             /\ reported' = IF ok THEN 0 ELSE reported
             /\ run' = IF ok
                       THEN [active |-> TRUE, trials |-> 0, num_samples |-> ns,
                             cost_used |-> 0, models |-> SpaceModels(space),
                             args |-> SpaceArgs(k)]
                       ELSE [NoRun EXCEPT !.args = SpaceArgs(k)]
             /\ last' = [NoLast EXCEPT
                           !.status = IF ok THEN "none" ELSE "tune_raised"]
    /\ gr' = GrIdle
    /\ calls' = calls + 1
    /\ marks' = {}
    /\ UNCHANGED <<env, cache, ev, poisoned>>

(***************************************************************************)
(* Completion.eval, step by step.                                          *)
(***************************************************************************)
\* the configs the search proposes from the normalised space (lines
\* 563, 573, 581): an index into the prompts or the messages, and into
\* the stops when there are stops
Proposals(models) ==
    { <<<<"model", m>>, <<"temperature_or_top_p", t>>, <<"max_tokens", mt>>,
        <<"n", n>>>>
      \o (IF prompts # None THEN <<<<"prompt", x>>>> ELSE <<<<"messages", x>>>>)
      \o (IF stops # None THEN <<<<"stop", 0>>>> ELSE <<>>) :
      m \in models, t \in SamplingChoices,
      mt \in Inputs(scenario).max_tokens, n \in Inputs(scenario).ns,
      x \in 0..(Len(IF prompts # None THEN prompts ELSE messages) - 1) }

\* eval returns `result' (status "returned") or raises (status "raised");
\* r is tune.run's record when the call began
Finish(status, path, result, e, r) ==
    /\ ev' = EvIdle
    /\ gr' = GrIdle
    /\ last' = [status |-> status, path |-> path, result |-> result,
                in_run |-> r.active, trial |-> r.trials, ev |-> Summary(e)]
    /\ reported' = IF status = "returned"
                   THEN reported + DictGet(result, "cost", 0) ELSE reported
    /\ run' = IF ~r.active THEN r
              ELSE IF status = "raised" THEN [r EXCEPT !.active = FALSE]
              ELSE [r EXCEPT !.cost_used = @ + DictGet(result, "cost", 0)]

\* lines 285-289
PrunedResult(cost) ==
    <<<<"inference_cost", Inf>>,
      <<metric, IF mode = "min" THEN Inf ELSE NegInf>>,
      <<"cost", cost>>>>

\* line 265 without `and not eval_only'
EffectivePruneInServing(prune_arg, eval_only) ==
    prune_arg /\ Truthy(inference_budget)

\* line 265: prune = prune and inference_budget and not eval_only
EffectivePrune(prune_arg, eval_only) ==
    prune_arg /\ Truthy(inference_budget) /\ ~eval_only

\* lines 230-304: eval(config, prune, eval_only) up to the first request
EvalBegin(config, prune_arg, eval_only, r) ==
    LET model == DictGet(config, "model", None)
        price == PricePair(price1K(model))
        config_n == DictGet(config, prune_hp, 1)
        \* the space of tune always holds max_tokens (line 92)
        max_tokens == DictGet(config, "max_tokens", 16)
        prompt == IF DictHas(config, "prompt")
                  THEN Some(prompts[DictGet(config, "prompt", None) + 1])
                  ELSE None
        msgs == IF prompt = None
                THEN Some(messages[DictGet(config, "messages", None) + 1])
                ELSE None
        stop == IF stops # None /\ stops # <<>>
                THEN stops[DictGet(config, "stop", None) + 1] ELSE stops
        prune == EffectivePrune(prune_arg, eval_only)
        region_key == get_region_key(config)
        target == IF prune /\ TruthyQ(avg_input_tokens)
                  THEN Some(TargetOutputTokens(inference_budget[1],
                                avg_input_tokens[1], price[1], price[2]))
                  ELSE None
        max_valid_n ==
            IF target # None
            THEN Max2(get_max_valid_n(region_key, max_tokens),
                      FloorDiv(target[1], max_tokens))
            ELSE get_max_valid_n(region_key, max_tokens)
        min_invalid_n == get_min_invalid_n(region_key, max_tokens)
        start_n == IF prune /\ config_n > max_valid_n
                   THEN max_valid_n + 1 ELSE config_n
        t_or_p == DictGet(config, "temperature_or_top_p", None)
        params == DictUpdate(
                      DictPop(DictSet(config, "stop", stop),
                              "temperature_or_top_p"), t_or_p)
        e == [EvIdle EXCEPT
                !.config = config, !.prune_arg = prune_arg, !.prune = prune,
                !.eval_only = eval_only, !.price_input = price[1],
                !.price_output = price[2], !.config_n = config_n,
                !.max_tokens = max_tokens, !.prompt = prompt,
                !.messages = msgs, !.target_output_tokens = target,
                !.input_tokens = IF ~TruthyQ(avg_input_tokens)
                                 THEN [j \in 1..data_length |-> None]
                                 ELSE <<>>,
                !.region_key = IF prune THEN Some(region_key) ELSE None,
                !.params = params, !.num_completions = start_n,
                !.start_n = start_n,
                !.entry_max_valid_n = IF prune THEN max_valid_n ELSE 0,
                !.entry_min_invalid_n = IF prune THEN min_invalid_n ELSE None]
    IN  /\ calls' = calls + 1
        /\ IF model \notin chat_models /\ ~DictHas(config, "prompt")
           THEN \* line 260: config["prompt"] of a config without a prompt
                Finish("raised", "KeyError", <<>>,
                       [EvIdle EXCEPT !.config = config,
                                      !.prune_arg = prune_arg,
                                      !.eval_only = eval_only], r)
           ELSE IF prune /\ config_n > max_valid_n
              /\ PruneNow(config_n, min_invalid_n)
           THEN Finish("returned", "pruned", PrunedResult(0), e, r)
           ELSE /\ ev' = OuterHead(e)
                /\ run' = r
                /\ gr' = GrIdle
                /\ UNCHANGED <<last, reported>>
        /\ UNCHANGED <<env, cache, clsVars, poisoned, marks>>

\* tune.run asks the search for a trial while the number of samples and
\* the cost budget of the search allow one
DriverMayIssue ==
    /\ run.trials < run.num_samples
    /\ IF optimization_budget = None \/ run.trials = 0
       THEN TRUE
       ELSE run.cost_used < optimization_budget[1]

\* line 615: tune.run evaluates a trial with cls.eval(config)
TrialStart ==
    /\ run.active /\ ev.pc = "idle" /\ calls < Inputs(scenario).calls
    /\ DriverMayIssue
    /\ \E config \in Proposals(run.models) :
         EvalBegin(config, TRUE, FALSE, [run EXCEPT !.trials = @ + 1])

\* lines 622-633: tune.run is over and tune returns
TuneReturn ==
    /\ run.active /\ ev.pc = "idle" /\ ~DriverMayIssue
    /\ run' = [run EXCEPT !.active = FALSE]
    /\ UNCHANGED <<env, cache, gr, clsVars, ev, last, reported, calls,
                   poisoned, marks>>

\* a caller evaluates a config after tune: eval(config, prune, eval_only)
EvalCall ==
    /\ tuned /\ ~run.active /\ ev.pc = "idle" /\ gr.pc # "try"
    /\ calls < Inputs(scenario).calls
    /\ \E config \in Proposals(run.models), a \in Inputs(scenario).eval_args :
         EvalBegin(config, a[1], a[2], run)

\* lines 311-338: the request of data instance i
RequestParams(e) ==
    LET data_i == e.i
        model == DictGet(e.config, "model", None)
    IN  IF e.prompt = None
        THEN DictSet(e.params, "messages",
                 [j \in 1..Len(e.messages[1]) |->
                     <<<<"role", DictGet(e.messages[1][j], "role", None)>>,
                       <<"content",
                         Format(DictGet(e.messages[1][j], "content", None),
                                data_i)>>>>])
        ELSE IF model \in chat_models
             THEN DictPop(DictSet(e.params, "messages",
                              <<<<<<"role", "user">>,
                                  <<"content", Format(e.prompt[1], data_i)>>>>>>),
                          "prompt")
             ELSE DictSet(e.params, "prompt", Format(e.prompt[1], data_i))

\* lines 307-339: the next data instance of the slice is requested
EvalRequest ==
    /\ ev.pc = "request"
    /\ get_response_enter(RequestParams(ev), ev.eval_only)
    /\ ev' = [ev EXCEPT !.params = RequestParams(ev), !.pc = "wait",
                        !.n_calls = @ + 1,
                        \* bookkeeping: the request, as <<numCompletions, i>>
                        !.requests = Append(@, <<ev.num_completions, ev.i>>)]
    /\ UNCHANGED <<clsVars, run, last, reported, calls, poisoned, marks>>

\* lines 375-382: the tallies of instance i after its response
Aggregate(e, n_output_tokens, responses) ==
    IF e.previous_num_completions # 0
    THEN [e EXCEPT !.n_tokens_list[e.i + 1] = @ + n_output_tokens,
                   !.responses_list[e.i + 1] = @ \o responses]
    ELSE [e EXCEPT !.n_tokens_list = Append(@, n_output_tokens),
                   !.responses_list = Append(@, responses)]

\* lines 340-382: the response of data instance i comes back
EvalResponse ==
    /\ ev.pc = "wait" /\ gr.pc = "ret"
    /\ LET response == gr.response[1]
           e0 == [ev EXCEPT !.n_remote = @ + (IF gr.remote THEN 1 ELSE 0)]
       IN  IF response = PoisonedFailure
           THEN \* lines 340-346; region_key is bound only when prune
                \* holds (line 267): reading it raises UnboundLocalError
                LET e1 == [e0 EXCEPT !.got_poison = TRUE]
                IN  IF ev.region_key = None
                    THEN /\ Finish("raised", "UnboundLocalError", <<>>, e1, run)
                         /\ UNCHANGED <<clsVars, marks>>
                    ELSE /\ min_invalid_n_per_max_tokens' =
                              update_invalid_n(ev.prune, ev.region_key[1],
                                  ev.max_tokens, ev.num_completions)
                         /\ marks' = Marked("invalid", ev.prune,
                                  ev.region_key[1], ev.max_tokens,
                                  ev.num_completions)
                         /\ Finish("returned", "poisoned",
                                   <<<<metric, <<0, 1>>>>, <<"cost", ev.cost>>>>,
                                   e1, run)
                         /\ UNCHANGED <<clsFixed, avg_input_tokens, total_cost,
                                        max_valid_n_per_max_tokens>>
           ELSE LET n_input_tokens == response.prompt_tokens
                    n_output_tokens == response.completion_tokens
                    qc == query_cost(ev.price_input, ev.price_output,
                                     n_input_tokens, n_output_tokens)
                    e1 == [e0 EXCEPT
                             !.input_tokens =
                                 IF ~TruthyQ(avg_input_tokens)
                                    /\ ~Truthy(ev.input_tokens[ev.i + 1])
                                 THEN [@ EXCEPT ![ev.i + 1] =
                                          Some(n_input_tokens)]
                                 ELSE @,
                             !.cost = @ + qc,
                             !.sum_in = @ + n_input_tokens,
                             !.sum_out = @ + n_output_tokens]
                    e2 == Aggregate(e1, n_output_tokens, Choices(response))
                IN  /\ total_cost' = total_cost + qc
                    /\ IF BudgetSpent(optimization_budget, total_cost + qc,
                                      ev.eval_only)
                       THEN Finish("returned", "budget",
                                <<<<metric, <<0, 1>>>>,
                                  <<"total_cost", total_cost + qc>>,
                                  <<"cost", e1.cost>>>>, e1, run)
                       ELSE /\ ev' = [e2 EXCEPT
                                        !.i = @ + 1,
                                        !.pc = IF ev.i + 1 < ev.data_limit
                                               THEN "request" ELSE "slice"]
                            /\ gr' = GrIdle
                            /\ UNCHANGED <<run, last, reported>>
                    /\ UNCHANGED <<clsFixed, avg_input_tokens,
                                   max_valid_n_per_max_tokens,
                                   min_invalid_n_per_max_tokens, marks>>
    /\ UNCHANGED <<env, cache, calls, poisoned>>

\* line 163: the InvalidRequestError that _get_response raises leaves eval
EvalRaise ==
    /\ ev.pc = "wait" /\ gr.pc = "raised"
    /\ Finish("raised", "InvalidRequestError", <<>>,
              [ev EXCEPT !.n_remote = @ + (IF gr.remote THEN 1 ELSE 0)], run)
    /\ UNCHANGED <<env, cache, clsVars, calls, poisoned, marks>>

\* lines 431-456: the config is evaluated on all the data: the metrics of
\* eval_func are averaged and the costs are reported
FinalResult(e, s, l, avg_in) ==
    LET total == SeqSum([j \in 1..e.data_limit |->
                    DictGet(eval_func(e.responses_list[j], j - 1), metric, 0)])
    IN  <<<<metric, <<total, e.data_limit>>>>,
          <<"total_cost", total_cost>>,
          <<"cost", e.cost>>,
          <<"inference_cost",
            <<s * e.price_output * avg_in[2] + avg_in[1] * e.price_input * l,
              l * avg_in[2]>>>>>>

\* lines 457-464 with num_completions + 1 for num_completions << 1
NextNByOne(e) ==
    OuterHead([e EXCEPT
        !.previous_num_completions =
            IF e.data_early_stop THEN 0 ELSE e.num_completions,
        !.n_tokens_list = IF e.data_early_stop THEN <<>> ELSE @,
        !.responses_list = IF e.data_early_stop THEN <<>> ELSE @,
        !.num_completions = Min2(e.num_completions + 1, e.config_n)])

\* lines 457-464 without the clear() of lines 460-461
NextNKeepTallies(e) ==
    OuterHead([e EXCEPT
        !.previous_num_completions =
            IF e.data_early_stop THEN 0 ELSE e.num_completions,
        !.num_completions = Min2(2 * e.num_completions, e.config_n)])

\* lines 457-464, then 301-304: the next n of the exponential search
NextN(e) ==
    OuterHead([e EXCEPT
        !.previous_num_completions =
            IF e.data_early_stop THEN 0 ELSE e.num_completions,
        !.n_tokens_list = IF e.data_early_stop THEN <<>> ELSE @,
        !.responses_list = IF e.data_early_stop THEN <<>> ELSE @,
        !.num_completions = Min2(2 * e.num_completions, e.config_n)])

\* lines 431-464: after the loop over the data
OuterTail(e, s, l) ==
    IF e.num_completions = e.config_n
    THEN LET known == TruthyQ(avg_input_tokens)
             avg_in == IF known THEN avg_input_tokens[1]
                       ELSE <<SeqSum([j \in 1..Len(e.input_tokens) |->
                                         e.input_tokens[j][1]]),
                              Len(e.input_tokens)>>
         IN  IF ~known /\ \E j \in 1..Len(e.input_tokens) :
                               e.input_tokens[j] = None
             THEN \* np.mean of a list that holds None
                  /\ Finish("raised", "TypeError", <<>>, e, run)
                  /\ UNCHANGED avg_input_tokens
             ELSE /\ avg_input_tokens' = Some(avg_in)
                  /\ Finish("returned", "final", FinalResult(e, s, l, avg_in),
                            e, run)
    ELSE /\ ev' = NextN(e)
         /\ gr' = GrIdle
         /\ UNCHANGED <<avg_input_tokens, run, last, reported>>

\* lines 425-427 with range(0, data_limit) for range(prev_data_limit,
\* data_limit) at line 307
NextSliceFromZero(e) ==
    [e EXCEPT !.prev_data_limit = e.data_limit,
              !.data_limit = Min2(2 * e.data_limit, data_length),
              !.i = 0,
              !.pc = "request"]

\* lines 425-427 without the doubling of data_limit
NextSliceStuck(e) ==
    [e EXCEPT !.prev_data_limit = e.data_limit,
              !.i = e.data_limit - 1,
              !.pc = "request"]

\* lines 425-427, then 307: the next prefix of the data, twice as long,
\* of which the instances from prev_data_limit on are requested
NextSlice(e) ==
    [e EXCEPT !.prev_data_limit = e.data_limit,
              !.data_limit = Min2(2 * e.data_limit, data_length),
              !.i = e.data_limit,
              !.pc = "request"]

\* lines 383-464: the slice of the data is done
EvalAfterSlice ==
    /\ ev.pc = "slice"
    /\ LET l == Min2(ev.data_limit, Len(ev.n_tokens_list))
           s == SeqSum(SubSeq(ev.n_tokens_list, 1, l))
           rr == RhoOverLimit(ev.data_limit, data_length)
           target == ev.target_output_tokens
       IN  IF TruthyQ(target) /\ OverTarget(s, l, target[1], rr)
              /\ ~ev.eval_only
           THEN \* lines 391-402
                /\ min_invalid_n_per_max_tokens' =
                     update_invalid_n(ev.prune, ev.region_key[1],
                                      ev.max_tokens, ev.num_completions)
                /\ marks' = Marked("invalid", ev.prune, ev.region_key[1],
                                   ev.max_tokens, ev.num_completions)
                /\ Finish("returned", "over_budget",
                          <<<<metric, <<0, 1>>>>,
                            <<"total_cost", total_cost>>,
                            <<"cost", ev.cost>>>>, ev, run)
                /\ UNCHANGED <<avg_input_tokens, max_valid_n_per_max_tokens>>
           ELSE IF /\ ev.prune /\ TruthyQ(target)
                   /\ UnderTarget(s, l, target[1], rr)
                   /\ \/ ev.num_completions < ev.config_n
                      \/ /\ ev.num_completions = ev.config_n
                         /\ ev.data_limit = data_length
                THEN \* lines 403-424
                     /\ max_valid_n_per_max_tokens' =
                          update_valid_n(ev.region_key[1], ev.max_tokens,
                                         ev.num_completions)
                     /\ marks' = Marked("valid", TRUE, ev.region_key[1],
                                        ev.max_tokens, ev.num_completions)
                     /\ IF ev.num_completions < ev.config_n
                        THEN OuterTail([ev EXCEPT
                                          !.data_limit = data_length,
                                          !.data_early_stop = TRUE], s, l)
                        ELSE OuterTail([ev EXCEPT
                                          !.prev_data_limit = ev.data_limit],
                                       s, l)
                     /\ UNCHANGED min_invalid_n_per_max_tokens
                ELSE \* lines 425-429
                     /\ IF ev.data_limit < data_length
                        THEN /\ ev' = NextSlice(ev)
                             /\ gr' = GrIdle
                             /\ UNCHANGED <<avg_input_tokens, run, last,
                                            reported>>
                        ELSE OuterTail([ev EXCEPT
                                          !.prev_data_limit = ev.data_limit],
                                       s, l)
                     /\ UNCHANGED <<max_valid_n_per_max_tokens,
                                    min_invalid_n_per_max_tokens, marks>>
    /\ UNCHANGED <<env, cache, clsFixed, total_cost, calls, poisoned>>

(***************************************************************************)
(* Completion.create and direct calls of _get_response.                    *)
(***************************************************************************)
\* the contexts given to create
Contexts == {0}

\* the configs (**config) given to create
CreateConfigs ==
    { <<<<"model", "text-ada-001">>, <<"prompt", "p0">>, <<"n", 2>>>>,
      <<<<"n", 2>>, <<"prompt", "p0">>, <<"model", "text-ada-001">>>>,
      <<<<"model", "gpt-4">>, <<"prompt", "p0">>>>,
      <<<<"model", "text-ada-001">>,
        <<"messages", <<<<<<"role", "user">>, <<"content", "m0">>>>>>>>>> }

\* lines 653-677: the request of create
CreateParams(context, config) ==
    LET prompt == DictGet(config, "prompt", None)
        ms == DictGet(config, "messages", None)
    IN  IF DictHas(config, "messages")
        THEN DictPop(DictSet(config, "messages",
                 [j \in 1..Len(ms) |->
                     [x \in 1..Len(ms[j]) |->
                         <<ms[j][x][1], Format(ms[j][x][2], context)>>]]),
                 "prompt")
        ELSE IF DictGet(config, "model", None) \in chat_models
             THEN DictPop(DictSet(config, "messages",
                              <<<<<<"role", "user">>,
                                  <<"content", Format(prompt, context)>>>>>>),
                          "prompt")
             ELSE DictSet(config, "prompt", Format(prompt, context))

\* lines 678-680: create(context, use_cache=True, **config)
Create ==
    /\ ev.pc = "idle" /\ gr.pc # "try" /\ ~run.active
    /\ \E context \in Contexts, config \in CreateConfigs :
         get_response_enter(CreateParams(context, config), FALSE)
    /\ UNCHANGED <<evalVars, poisoned, marks>>

\* line 681: create(context, use_cache=False, **config): one call of the
\* endpoint, outside _get_response; an error of the endpoint is raised
CreateNoCache ==
    /\ ev.pc = "idle" /\ gr.pc # "try" /\ ~run.active
    /\ \E context \in Contexts, config \in CreateConfigs,
          t \in TokensPerCompletion, ok \in BOOLEAN :
         LET params == CreateParams(context, config)
         IN  gr' = [GrIdle EXCEPT
                      !.via = "create", !.config = params, !.remote = TRUE,
                      !.pc = IF ok THEN "ret" ELSE "raised",
                      !.response = IF ok
                                   THEN Some(EndpointResponse(params, t))
                                   ELSE None]
    /\ UNCHANGED <<env, cache, evalVars, poisoned, marks>>

\* the requests of the direct calls: those create makes
CallerRequests ==
    {CreateParams(context, config) :
        context \in Contexts, config \in CreateConfigs}

\* a caller calls Completion._get_response(config, eval_only) itself, as
\* eval does (line 339)
GetResponseCall ==
    /\ ev.pc = "idle" /\ gr.pc # "try" /\ ~run.active
    /\ \E config \in CallerRequests, eval_only \in BOOLEAN :
         get_response_enter(config, eval_only)
    /\ UNCHANGED <<evalVars, poisoned, marks>>

\* the items of the bundles given to get_key: scalars, a list in two
\* orders, and a list of one dict in two insertion orders
KeyItems ==
    { <<"model", "gpt-4">>, <<"n", 1>>, <<"n", 2>>,
      <<"stop", <<"a", "b">>>>, <<"stop", <<"b", "a">>>>,
      <<"messages", <<<<<<"role", "user">>, <<"content", "m0">>>>>>>>,
      <<"messages", <<<<<<"content", "m0">>, <<"role", "user">>>>>>>> }

\* the largest number of items of a bundle
MaxItems == 3

\* the bundles: items with distinct keys, in any order
KeyBundles ==
    { b \in UNION {[1..n -> KeyItems] : n \in 1..MaxItems} :
        \A i, j \in 1..Len(b) : i # j => b[i][1] # b[j][1] }

\* lines 27-40: a caller calls get_key(config), twice; the first call is
\* kept for the comparison with the second
GetKeyCall ==
    /\ gr.pc = "none" /\ ev.pc = "idle" /\ ~run.active
    /\ gr.other = <<>>
    /\ \E config \in KeyBundles :
         gr' = [GrIdle EXCEPT !.via = "get_key", !.params = config,
                              !.key = get_key(config),
                              !.other = gr.params, !.other_key = gr.key]
    /\ UNCHANGED <<env, cache, evalVars, poisoned, marks>>

(***************************************************************************)
(* The specifications.                                                     *)
(***************************************************************************)
\* the class attributes as the class statement leaves them (lines 97-105)
StartIn(api_types, scenarios) ==
    /\ api_type \in api_types
    /\ scenario \in scenarios
    /\ verbosity \in Inputs(scenario).verbosities
    /\ cache = <<>>
    /\ gr = GrIdle
    /\ tuned = FALSE
    /\ data_length = 0
    /\ inference_budget = None
    /\ optimization_budget = None
    /\ avg_input_tokens = None
    /\ total_cost = 0
    /\ max_valid_n_per_max_tokens = <<>>
    /\ min_invalid_n_per_max_tokens = <<>>
    /\ prompts = None
    /\ messages = None
    /\ stops = None
    /\ mode = "min"
    /\ prune_hp = "n"
    /\ ev = EvIdle
    /\ run = NoRun
    /\ last = NoLast
    /\ reported = 0
    /\ calls = 0
    /\ poisoned = {}
    /\ marks = {}

Start(api_types) == StartIn(api_types, {"base"})

\* the state after the class is loaded, for the default api_type
Init == Start({"open_ai"})

\* the same, for either api_type
InitCaller == Start({"open_ai", "azure"})

\* the same, for each of the other scenarios
InitScenario == StartIn({"open_ai"}, {"generous", "tight", "shapes"})

\* the endpoint answers a request, in one of its four ways
Endpoint ==
    \/ EndpointSuccess
    \/ EndpointTransient
    \/ EndpointRateLimit
    \/ EndpointInvalidRequest

\* tune, its trials, and calls of eval after it
Next ==
    \/ Tune
    \/ TrialStart
    \/ TuneReturn
    \/ EvalCall
    \/ EvalRequest
    \/ EvalResponse
    \/ EvalRaise
    \/ EvalAfterSlice
    \/ Endpoint

Spec == Init /\ [][Next]_vars

\* create and direct calls of _get_response on one cache
NextCaller ==
    \/ Create
    \/ CreateNoCache
    \/ GetResponseCall
    \/ Endpoint

SpecCaller == InitCaller /\ [][NextCaller]_vars

\* tune, its trials and calls of eval, in the other scenarios
SpecScenario == InitScenario /\ [][Next]_vars

\* the same, for longer data
InitLong == StartIn({"open_ai"}, {"long"})

SpecLong == InitLong /\ [][Next]_vars

\* a call of _get_response returns or raises
GetResponseReturns == Endpoint /\ gr'.pc # "try"

\* eval goes on as long as it can, and every call of _get_response
\* returns: openai_completion.create can always answer
EvalFairness ==
    /\ WF_vars(EvalRequest)
    /\ WF_vars(EvalResponse)
    /\ WF_vars(EvalRaise)
    /\ WF_vars(EvalAfterSlice)
    /\ WF_vars(GetResponseReturns)

SpecTermination == InitLong /\ [][Next]_vars /\ EvalFairness

\* calls of get_key
NextKey == GetKeyCall

SpecKey == Init /\ [][NextKey]_vars

(***************************************************************************)
(* Properties of _get_response.                                            *)
(***************************************************************************)
\* a step in which a call of _get_response begins: its cache lookup
Enters ==
    gr.pc # "try" /\ gr'.via = "_get_response" /\ gr'.pc \in {"try", "ret"}

\* key k holds the poison in cache c
HoldsPoison(c, k) == k \in DOMAIN c /\ c[k] = PoisonedFailure

\* key k holds a response of the endpoint in cache c
HoldsResponse(c, k) == k \in DOMAIN c /\ c[k] # PoisonedFailure

\* the call that begins returns `value' at once: no remote call, and the
\* cache stays as it is
ReturnsAtOnce(value) ==
    /\ gr'.pc = "ret"
    /\ gr'.response = Some(value)
    /\ ~gr'.remote
    /\ cache' = cache

\* C4 as stated: once a call with eval_only = False has poisoned a key,
\* every later call with eval_only = False and that key returns the poison
\* at once, without a remote call and without a change of the cache.
C4_PoisonSticksInTuning ==
    [][Enters /\ ~gr'.eval_only /\ gr'.key \in poisoned
         => ReturnsAtOnce(PoisonedFailure)]_vars

\* C4, amended: a call with eval_only = False whose key still holds the
\* poison returns the poison at once, without a remote call and without a
\* change of the cache; and a poisoned key stops holding the poison only
\* when a call with eval_only = True and that key succeeds.
C4_PoisonSticksUntilServed ==
    [][/\ Enters /\ ~gr'.eval_only /\ HoldsPoison(cache, gr'.key)
            => ReturnsAtOnce(PoisonedFailure)
       /\ \A k \in poisoned :
            HoldsPoison(cache, k) /\ ~HoldsPoison(cache', k)
               => /\ gr.pc = "try" /\ gr.eval_only /\ gr.key = k
                  /\ gr'.pc = "ret" /\ gr'.response = Some(cache'[k])
                  /\ HoldsResponse(cache', k)]_vars

\* C4, witness: a call with eval_only = False has come back at once with
\* the poison an earlier call wrote under its key.
C4_Witness ==
    /\ gr.pc = "ret" /\ gr.via = "_get_response" /\ ~gr.eval_only
    /\ gr.key \in poisoned
    /\ gr.cached = Some(PoisonedFailure)
    /\ gr.response = Some(PoisonedFailure)
    /\ ~gr.remote

\* C5 as stated: when the cache holds the poison for the key, a call with
\* eval_only = False goes on to the remote call, and a call with
\* eval_only = True returns the cached poison without a remote call.
C5_PoisonLookupAsStated ==
    [][Enters /\ HoldsPoison(cache, gr'.key)
         => IF gr'.eval_only
            THEN ReturnsAtOnce(PoisonedFailure)
            ELSE gr'.pc = "try" /\ gr'.response = None]_vars

\* C5, amended: when the cache holds the poison for the key, a call with
\* eval_only = False returns the cached poison without a remote call, and
\* a call with eval_only = True treats the entry as absent: it goes on to
\* the remote call.
C5_PoisonLookup ==
    [][Enters /\ HoldsPoison(cache, gr'.key)
         => IF gr'.eval_only
            THEN gr'.pc = "try" /\ gr'.response = None /\ cache' = cache
            ELSE ReturnsAtOnce(PoisonedFailure)]_vars

\* C5, witness: a call with eval_only = True has found the poison under
\* its key and is in its retry loop.
C5_Witness ==
    /\ gr.pc = "try" /\ gr.eval_only
    /\ gr.cached = Some(PoisonedFailure)
    /\ HoldsPoison(cache, gr.key)

\* key k holds the poison after the step and did not hold it before
NewlyPoisoned(k) == HoldsPoison(cache', k) /\ ~HoldsPoison(cache, k)

\* a step in which the endpoint fails an attempt with RateLimitError or
\* Timeout
RateLimited == gr.pc = "try" /\ gr'.last_error = "rate_limit" /\ gr' # gr

\* C7: in a call with eval_only = False, a rate-limit error or a timeout
\* at time now is followed by a sleep of retry_time and another attempt
\* if (now - start) + retry_time < retry_timeout; otherwise the call
\* caches the poison under the key of the original config and returns the
\* poison.  The poison is produced by no other step.
C7_RateLimitPolicy ==
    [][/\ Enters => gr'.key = get_key(gr'.config)
       /\ gr.pc = "try" => gr'.key = gr.key
       /\ RateLimited /\ ~gr.eval_only
            => \E d \in CallDurations :
                 IF (gr.elapsed + d) + retry_time < retry_timeout
                 THEN /\ gr'.pc = "try"
                      /\ gr'.elapsed = gr.elapsed + d + retry_time
                      /\ cache' = cache
                 ELSE /\ gr'.pc = "ret"
                      /\ gr'.response = Some(PoisonedFailure)
                      /\ cache' = CacheSet(cache, gr.key, PoisonedFailure)
       /\ ( \/ \E k \in DOMAIN cache' : NewlyPoisoned(k)
            \/ gr.pc = "try" /\ gr'.response = Some(PoisonedFailure) )
            => /\ RateLimited /\ ~gr.eval_only
               /\ \E d \in CallDurations :
                    (gr.elapsed + d) + retry_time >= retry_timeout
               /\ \A k \in DOMAIN cache' : NewlyPoisoned(k) => k = gr.key]_vars

\* C7, witness: a call with eval_only = False has given up on a rate-limit
\* error after a retry and has cached and returned the poison.
C7_Witness ==
    /\ gr.pc = "ret" /\ gr.via = "_get_response" /\ ~gr.eval_only
    /\ gr.remote /\ gr.last_error = "rate_limit"
    /\ gr.response = Some(PoisonedFailure)
    /\ HoldsPoison(cache, gr.key)

\* C8: a call with eval_only = True never returns the poison and never
\* writes it to the cache, whatever the endpoint does and whatever the
\* cache holds: after a transient or a rate-limit error it tries again,
\* and it ends only with a response of the endpoint, which it caches, or
\* with the InvalidRequestError it raises.
C8_ServingNeverPoisons ==
    [][gr'.via = "_get_response" /\ gr'.eval_only
         => /\ gr'.response # Some(PoisonedFailure)
            /\ \A k \in DOMAIN cache' : ~NewlyPoisoned(k)
            /\ gr.pc = "try" /\ gr'.last_error \in {"transient", "rate_limit"}
                 => gr'.pc = "try"
            /\ gr.pc = "try" /\ gr'.pc # "try"
                 => \/ /\ gr'.pc = "ret"
                       /\ HoldsResponse(cache', gr.key)
                       /\ gr'.response = Some(cache'[gr.key])
                    \/ /\ gr'.pc = "raised"
                       /\ gr'.last_error = "invalid_request"]_vars

\* C8, witness: a call with eval_only = True found the poison under its
\* key, has met a rate-limit error past retry_timeout, and tries again.
C8_Witness ==
    /\ gr.pc = "try" /\ gr.eval_only
    /\ gr.cached = Some(PoisonedFailure)
    /\ gr.last_error = "rate_limit"
    /\ gr.elapsed >= retry_timeout

\* C9: a call of _get_response (from create with use_cache = True as
\* well) whose key holds a response of the endpoint returns that cached
\* response, for either value of eval_only, without a remote call and
\* without a change of the cache.
C9_CacheIdempotence ==
    [][Enters /\ HoldsResponse(cache, get_key(gr'.config))
         => ReturnsAtOnce(cache[get_key(gr'.config)])]_vars

\* C9, witness: a call whose config lists its items in another order than
\* the call that filled the cache has come back with the cached response
\* and without a remote call.
C9_Witness ==
    /\ gr.pc = "ret" /\ gr.via = "_get_response" /\ ~gr.remote
    /\ gr.config[1][1] = "n"
    /\ gr.cached # None
    /\ gr.response = gr.cached
    /\ HoldsResponse(cache, gr.key)

\* a step in which the endpoint fails an attempt with InvalidRequestError
InvalidRequested ==
    gr.pc = "try" /\ gr'.last_error = "invalid_request" /\ gr' # gr

\* the items of a request other than "model" and "engine"
OtherItems(config) == DictPop(DictPop(config, "model"), "engine")

\* C11: when the endpoint raises InvalidRequestError, the api_type is
\* azure and the request holds "model", _get_response tries again with a
\* request that holds the old value of "model" under "engine" and no
\* "model", and it does so at most once in a call; a response that comes
\* after the rename is cached under the key of the params the caller
\* passed, and the mapping of the caller stays as it was; an
\* InvalidRequestError after the rename, or with another api_type, is
\* raised to the caller and the cache is not written.
C11_AzureRename ==
    [][/\ Enters => gr'.key = get_key(gr'.params) /\ gr'.n_renames = 0
       /\ gr.pc = "try"
            => /\ gr'.params = gr.params /\ gr'.key = gr.key
               /\ gr'.n_renames <= 1
               /\ gr'.n_renames = 1 => ~DictHas(gr'.config, "model")
       /\ InvalidRequested
            => /\ cache' = cache
               /\ IF api_type = "azure" /\ gr.n_renames = 0
                     /\ DictHas(gr.config, "model")
                  THEN /\ gr'.pc = "try" /\ gr'.n_renames = 1
                       /\ DictGet(gr'.config, "engine", None) =
                            DictGet(gr.config, "model", None)
                       /\ OtherItems(gr'.config) = OtherItems(gr.config)
                  ELSE gr'.pc = "raised"
       /\ gr.pc = "try" /\ gr'.pc = "ret" /\ gr'.last_error = "none"
            => /\ cache' = CacheSet(cache, get_key(gr.params), gr'.response[1])
               /\ gr'.response[1] = EndpointResponse(gr.config, verbosity)]_vars

\* C11, witness: on azure, a call has come back with a response after one
\* rename: its last request held "engine" and no "model", the params of
\* the caller still hold "model", and the response is cached under their
\* key.
C11_Witness ==
    /\ api_type = "azure"
    /\ gr.pc = "ret" /\ gr.via = "_get_response" /\ gr.n_renames = 1
    /\ DictHas(gr.config, "engine") /\ ~DictHas(gr.config, "model")
    /\ DictHas(gr.params, "model") /\ ~DictHas(gr.params, "engine")
    /\ gr.response # None /\ gr.response[1] # PoisonedFailure
    /\ HoldsResponse(cache, get_key(gr.params))
    /\ cache[get_key(gr.params)] = gr.response[1]

\* the model a request names, under "model" or, after the rename, under
\* "engine"
ModelOf(request) ==
    DictGet(request, "model", DictGet(request, "engine", None))

\* a request has the shape of its model: messages and no prompt for a
\* chat model, a prompt and no messages for another model
HasChatShape(request) ==
    IF ModelOf(request) \in chat_models
    THEN DictHas(request, "messages") /\ ~DictHas(request, "prompt")
    ELSE DictHas(request, "prompt") /\ ~DictHas(request, "messages")

\* C12 as stated: every request that is issued to the endpoint, by eval
\* and by create, holds messages and no prompt when its model is a chat
\* model, and a prompt and no messages when it is not.
C12_ChatShape ==
    gr.pc = "try" \/ gr.remote => HasChatShape(gr.config)

\* two bundles hold the same items, in two insertion orders
Reordered(p, q) ==
    p # q /\ {p[j] : j \in 1..Len(p)} = {q[j] : j \in 1..Len(q)}

\* two bundles hold the same items but for a list, whose elements they
\* hold in two orders
ListReordered(p, q) ==
    /\ DictHas(p, "stop") /\ DictHas(q, "stop")
    /\ DictGet(p, "stop", None) # DictGet(q, "stop", None)
    /\ ParamsEq(DictPop(p, "stop"), DictPop(q, "stop"))

\* C14: the keys of two bundles of request parameters are equal exactly
\* when the bundles are equal as Python values; the insertion order of
\* the keys of a mapping, of the bundle or of a mapping inside it, does
\* not change the key, and the order of the elements of a list does.
\* (get_key sorts the items of the bundle; it keeps their values as they
\* are, and Python's == of dicts does not look at the insertion order.)
C14_KeyStability ==
    gr.via = "get_key" /\ gr.other # <<>>
      => /\ KeyEq(gr.key, gr.other_key) <=> ParamsEq(gr.params, gr.other)
         /\ Reordered(gr.params, gr.other) => KeyEq(gr.key, gr.other_key)
         /\ ListReordered(gr.params, gr.other)
              => ~KeyEq(gr.key, gr.other_key)

\* C14, witness: two calls of get_key with bundles that hold the same
\* three items in two insertion orders, and a dict inside them in two
\* insertion orders, have returned equal keys.
C14_Witness ==
    /\ gr.via = "get_key" /\ Len(gr.params) = 3 /\ Len(gr.other) = 3
    /\ gr.params[1][1] # gr.other[1][1]
    /\ DictHas(gr.params, "messages") /\ DictHas(gr.other, "messages")
    /\ DictGet(gr.params, "messages", None) # DictGet(gr.other, "messages", None)
    /\ ParamsEq(gr.params, gr.other)
    /\ KeyEq(gr.key, gr.other_key)

(***************************************************************************)
(* Properties of eval and tune.                                            *)
(***************************************************************************)
\* a step in which a call of eval begins (lines 230-304): it goes on to
\* its first request, or it returns the pruned result at once
EvalBegins ==
    /\ ev.pc = "idle" /\ calls' = calls + 1
    /\ ev'.pc = "request" \/ (ev'.pc = "idle" /\ last'.path = "pruned")

\* the call that begins in the step
Begun == IF ev'.pc = "request" THEN Summary(ev') ELSE last'.ev

\* the call that begins has the pruning enabled: prune = True, eval_only =
\* False and an inference budget
PruningEnabled ==
    Begun.prune_arg /\ ~Begun.eval_only /\ Truthy(inference_budget)

\* lookupMinInvalid and lookupMaxValid for the call that begins
BegunMinInvalid ==
    get_min_invalid_n(get_region_key(Begun.config),
                      DictGet(Begun.config, "max_tokens", 16))

BegunMaxValid ==
    LET max_tokens == DictGet(Begun.config, "max_tokens", 16)
        known == get_max_valid_n(get_region_key(Begun.config), max_tokens)
    IN  IF TruthyQ(avg_input_tokens)
        THEN Max2(known,
                  FloorDiv(TargetOutputTokens(inference_budget[1],
                               avg_input_tokens[1], Begun.price_input,
                               Begun.price_output), max_tokens))
        ELSE known

BegunN == DictGet(Begun.config, prune_hp, 1)

\* the call that begins returns at once: no call of _get_response, no
\* cost, and the class state is as before
ReturnsPruned ==
    /\ ev'.pc = "idle" /\ gr'.pc = "none"
    /\ last'.status = "returned" /\ last'.path = "pruned"
    /\ last'.ev.n_calls = 0
    /\ DictGet(last'.result, "cost", 1) = 0
    /\ total_cost' = total_cost
    /\ cache' = cache

\* C1 as stated: a call of eval with the pruning enabled whose n is at
\* least the least invalid n known for its region and max_tokens returns
\* without a call of _get_response and with cost 0.
C1_PruneAsStated ==
    [][( /\ EvalBegins /\ PruningEnabled
         /\ BegunMinInvalid # None /\ BegunN >= BegunMinInvalid[1] )
         => ReturnsPruned]_vars

\* C1, amended: a call of eval with the pruning enabled whose n exceeds
\* the greatest valid n known for its region and max_tokens (raised to
\* the n the inference budget affords once avg_input_tokens is known),
\* and is at least the least invalid n known for them, returns without a
\* call of _get_response and with cost 0.
C1_PruneAboveValid ==
    [][( /\ EvalBegins /\ PruningEnabled
         /\ BegunN > BegunMaxValid
         /\ BegunMinInvalid # None /\ BegunN >= BegunMinInvalid[1] )
         => ReturnsPruned]_vars

\* C1, witness: a call of eval whose n equals the least invalid n of its
\* region and exceeds the greatest valid n has returned the pruned result.
C1_Witness ==
    /\ last.status = "returned" /\ last.path = "pruned"
    /\ last.ev.prune
    /\ last.ev.entry_min_invalid_n = Some(last.ev.config_n)
    /\ last.ev.config_n > last.ev.entry_max_valid_n
    /\ last.ev.n_calls = 0

\* the costs a single call can have: any model of the spaces, any request
\* and any response of the endpoint
QueryCosts ==
    {query_cost(PricePair(price1K(m))[1], PricePair(price1K(m))[2],
                4 + i, n * t) :
        m \in {"text-ada-001", "gpt-4"}, i \in 0..2, n \in 1..(MaxN + 1),
        t \in TokensPerCompletion}

\* an upper bound of the cost of one call
MaxQueryCost == CHOOSE c \in QueryCosts : \A d \in QueryCosts : d <= c

\* C2 as stated: in a run of tune with optimization_budget = B, the
\* accumulated cls._total_cost never exceeds B + MaxQueryCost.
C2_BudgetHonoured ==
    run.active /\ optimization_budget # None
      => total_cost <= optimization_budget[1] + MaxQueryCost

\* C3 as stated: in a run of tune with optimization_budget = 0.0, the
\* first trial returns {metric: 0, total_cost, cost} right after its
\* first completed call, and no further trial is issued.
C3_BudgetZero ==
    optimization_budget = Some(0) /\ run.active /\ run.trials >= 1
      => /\ run.trials = 1
         /\ ev.pc # "idle" => ev.sum_in = 0
         /\ ev.pc = "idle" /\ last.status = "returned" /\ ~last.ev.got_poison
              => /\ last.path = "budget"
                 /\ last.ev.n_calls = 1
                 /\ DictGet(last.result, metric, Inf) = <<0, 1>>
                 /\ DictHas(last.result, "total_cost")
                 /\ DictHas(last.result, "cost")

\* C6 as stated: whenever _get_response returns the poison to eval, eval
\* returns a result with the metric 0 and the cost of the trial so far,
\* and raises no error, whether the pruning is enabled or not.
C6_PoisonContained ==
    last.ev.got_poison
      => /\ last.status = "returned"
         /\ DictGet(last.result, metric, Inf) = <<0, 1>>
         /\ DictGet(last.result, "cost", -1) = last.ev.cost

\* the price of the responses an activation of eval has obtained: per
\* token, the prices are those of price1K divided by 1000
PriceOfResponses(e) == e.price_input * e.sum_in + e.price_output * e.sum_out

\* C10: the cost a call of eval returns is the sum, over the responses of
\* the endpoint the call obtained from _get_response, of price_input *
\* input tokens + price_output * output tokens (0 for a pruned trial);
\* and between the trials of a run of tune, cls._total_cost is the sum of
\* the costs the trials returned since tune set it to 0.
C10_CostAccounting ==
    /\ ev.pc # "idle" => ev.cost = PriceOfResponses(ev)
    /\ last.status = "returned"
         => /\ DictGet(last.result, "cost", -1) = PriceOfResponses(last.ev)
            /\ last.path = "pruned" => DictGet(last.result, "cost", -1) = 0
    /\ run.active /\ ev.pc = "idle"
         => total_cost = reported /\ run.cost_used = reported

\* C10, witness: the second trial of a run has returned after two calls of
\* _get_response, and the first trial had a cost too.
C10_Witness ==
    /\ run.active /\ ev.pc = "idle" /\ run.trials = 2
    /\ last.status = "returned" /\ last.in_run /\ last.trial = 2
    /\ last.ev.n_calls >= 2 /\ last.ev.cost > 0
    /\ total_cost > last.ev.cost
    /\ total_cost = reported

\* the region index holds one entry and no other: n is the least invalid
\* n of region rk at max_tokens k
OnlyInvalid(rk, k, n) ==
    /\ max_valid_n_per_max_tokens = <<>>
    /\ DOMAIN min_invalid_n_per_max_tokens = {rk}
    /\ DOMAIN min_invalid_n_per_max_tokens[rk] = {k}
    /\ min_invalid_n_per_max_tokens[rk][k] = n

\* the call that begins returns the pruned result of lines 285-289
ReturnsPrunedResult ==
    /\ ReturnsPruned
    /\ last'.result = PrunedResult(0)
    /\ DictGet(last'.result, "inference_cost", 0) = Inf
    /\ DictGet(last'.result, metric, 0) = IF mode = "min" THEN Inf ELSE NegInf
    /\ last'.ev.n_remote = 0

BegunMaxTokens == DictGet(Begun.config, "max_tokens", 16)

\* C15 as stated (scenario S2): when n = 5 is recorded as invalid for a
\* region at max_tokens = 100 and nothing else is recorded, eval of a
\* config of that region with max_tokens = 50 and n = 8, with the pruning
\* enabled, returns the pruned result at once, without a remote call.
C15_PruneByLargerMaxTokens ==
    [][( /\ EvalBegins /\ PruningEnabled
         /\ OnlyInvalid(get_region_key(Begun.config), 100, 5)
         /\ BegunMaxTokens = 50 /\ BegunN = 8 )
         => ReturnsPrunedResult]_vars

\* C15, amended: when n = 5 is recorded as invalid for a region at
\* max_tokens = 50 and nothing else is recorded, eval of a config of that
\* region with max_tokens = 100 and n = 8, with the pruning enabled and
\* with 8 above the n the inference budget affords (which holds whenever
\* avg_input_tokens is not known yet), returns {inference_cost: inf,
\* metric: inf for mode min and -inf for mode max, cost: 0} at once,
\* without a remote call.  The entry at max_tokens = 100 does not prune a
\* config with max_tokens = 50.
C15_PruneBySmallerMaxTokens ==
    [][( /\ EvalBegins /\ PruningEnabled
         /\ BegunN = 8 /\ BegunN > BegunMaxValid )
         => /\ OnlyInvalid(get_region_key(Begun.config), 50, 5)
               /\ BegunMaxTokens = 100
                 => ReturnsPrunedResult
            /\ OnlyInvalid(get_region_key(Begun.config), 100, 5)
               /\ BegunMaxTokens = 50
                 => ev'.pc = "request"]_vars

\* C15, witness: the index holds n = 5 as invalid at max_tokens = 50 and
\* nothing else, and eval of a config with max_tokens = 100 and n = 8 has
\* returned the pruned result.
C15_Witness ==
    /\ last.status = "returned" /\ last.path = "pruned"
    /\ last.ev.config_n = 8 /\ DictGet(last.ev.config, "max_tokens", 0) = 100
    /\ last.ev.n_calls = 0
    /\ OnlyInvalid(get_region_key(last.ev.config), 50, 5)

\* the per-call n of the stages of a call of eval, in order
PerCallNs(e) == [j \in 1..Len(e.stages) |-> e.stages[j][2]]

\* the values of numCompletions of the stages of a call of eval, in order
StageNs(e) == [j \in 1..Len(e.stages) |-> e.stages[j][1]]

\* the most input tokens a request of the data has
MaxInputTokens == 3 + data_length

\* the inference budget is generous for a call: it pays for the input and
\* for max_tokens output tokens for each of the n completions
Generous(e) ==
    /\ Truthy(inference_budget)
    /\ inference_budget[1] >= e.price_input * MaxInputTokens
                                + e.price_output * e.config_n * e.max_tokens

\* scenario S3: the last call of eval had the pruning enabled, a generous
\* inference budget, n = 4 and max_tokens = 20, the endpoint spends 10
\* output tokens per completion, and the call ran to its end (and no call
\* has begun since)
S3Ended ==
    /\ ev.pc = "idle" /\ last.status = "returned" /\ last.path = "final"
    /\ last.ev.prune /\ Generous(last.ev) /\ verbosity = 10
    /\ last.ev.config_n = 4 /\ last.ev.max_tokens = 20

FiniteCost(result) ==
    DictHas(result, "inference_cost")
      /\ DictGet(result, "inference_cost", Inf)[2] # 0

\* C16 as stated (scenario S3): the call issues its calls with per-call
\* n = 1, then 2, then 4, the last stage over the full data, leaves
\* maxValidN[rk][20] >= 4 and returns a finite inference_cost.
C16_StagedGrowthFromOne ==
    S3Ended
      => /\ PerCallNs(last.ev) = <<1, 2, 4>>
         /\ last.ev.data_limit = data_length
         /\ get_max_valid_n(last.ev.region_key[1], 20) >= 4
         /\ FiniteCost(last.result)

\* C16, amended: in scenario S3 no call has per-call n = 1.  When
\* avg_input_tokens is known as the call begins, the budget raises
\* maxValidN to 4 or more: there is one stage, with numCompletions = 4 and
\* per-call n = 4, that ends over the full data and leaves
\* maxValidN[rk][20] >= 4.  When avg_input_tokens is not known yet (the
\* first trial after tune), the call starts at maxValidN + 1 = 2: its
\* stages have numCompletions = 2 and 4 with per-call n = 2 and 2, each
\* over the full data, and the region index stays as it was.  In both
\* cases the inference_cost returned is finite.
C16_StagedGrowth ==
    S3Ended
      => /\ last.ev.data_limit = data_length
         /\ FiniteCost(last.result)
         /\ \A j \in 1..Len(last.ev.stages) : last.ev.stages[j][2] # 1
         /\ IF last.ev.entry_max_valid_n >= 4
            THEN /\ last.ev.stages = <<<<4, 4>>>>
                 /\ get_max_valid_n(last.ev.region_key[1], 20) >= 4
                 /\ <<"valid", last.ev.region_key[1], 20, 4>> \in marks
            ELSE /\ last.ev.entry_max_valid_n = 1
                 /\ last.ev.stages = <<<<2, 2>>, <<4, 2>>>>
                 /\ \A m \in marks : m[1] # "valid"

\* C16, witness: in scenario S3, a call that began with avg_input_tokens
\* known has ended after one stage with per-call n = 4 and has marked
\* n = 4 valid at max_tokens = 20.
C16_Witness ==
    /\ S3Ended /\ last.in_run /\ last.trial = 2
    /\ last.ev.stages = <<<<4, 4>>>>
    /\ last.ev.n_calls = data_length
    /\ max_valid_n_per_max_tokens[last.ev.region_key[1]][20] = 4

\* scenario S4: the last call of eval had the pruning enabled and knew
\* its target_output_tokens, of which every completion of the endpoint
\* spends more than twice; the call has returned after its first request
\* (it was not pruned as it began), and no call has begun since
S4Ended ==
    /\ ev.pc = "idle" /\ last.status = "returned"
    /\ last.path \in {"over_budget", "poisoned", "budget", "final"}
    /\ last.ev.prune /\ TruthyQ(last.ev.target_output_tokens)
    /\ verbosity * last.ev.target_output_tokens[1][2]
         > 2 * last.ev.target_output_tokens[1][1]

\* C17 as stated (scenario S4): the call issues exactly one call of
\* _get_response, with per-call n = 1 and for data instance 0, records
\* that n as invalid for its region and max_tokens, and returns the
\* metric 0.
C17_OneCallAtOne ==
    S4Ended
      => /\ last.ev.n_calls = 1 /\ last.ev.data_limit = 1
         /\ PerCallNs(last.ev) = <<1>>
         /\ <<"invalid", last.ev.region_key[1], last.ev.max_tokens, 1>>
              \in marks
         /\ DictGet(last.result, metric, Inf) = <<0, 1>>

\* C17, amended: the call issues exactly one call of _get_response, for
\* data instance 0 and with per-call n = startN, where startN is configN
\* when configN <= maxValidN and maxValidN + 1 otherwise (so it is 1 only
\* for configN = 1); it returns the metric 0, and it records startN as
\* invalid for its region and max_tokens unless that call spent the
\* optimization budget.
C17_OneCallAtStartN ==
    S4Ended
      => /\ last.ev.n_calls = 1 /\ last.ev.data_limit = 1
         /\ last.ev.start_n =
              IF last.ev.config_n <= last.ev.entry_max_valid_n
              THEN last.ev.config_n ELSE last.ev.entry_max_valid_n + 1
         /\ last.ev.stages = <<<<last.ev.start_n, last.ev.start_n>>>>
         /\ last.ev.start_n = 1 <=> last.ev.config_n = 1
         /\ DictGet(last.result, metric, Inf) = <<0, 1>>
         /\ last.path \in {"over_budget", "poisoned", "budget"}
         /\ last.path # "budget"
              => /\ <<"invalid", last.ev.region_key[1], last.ev.max_tokens,
                      last.ev.start_n>> \in marks
                 /\ get_min_invalid_n(last.ev.region_key[1],
                                      last.ev.max_tokens)[1] <= last.ev.start_n

\* C17, witness: in scenario S4, a call with n = 2 has returned the
\* metric 0 after one call of _get_response with per-call n = 2, which
\* the endpoint answered, and n = 2 is recorded as invalid.
C17_Witness ==
    /\ S4Ended /\ last.path = "over_budget"
    /\ last.ev.config_n = 2 /\ last.ev.stages = <<<<2, 2>>>>
    /\ last.ev.n_calls = 1 /\ last.ev.sum_out > 0
    /\ min_invalid_n_per_max_tokens[last.ev.region_key[1]][last.ev.max_tokens] = 2

\* the max_tokens at which the region index holds an entry for region rk
IndexedMaxTokens(rk) ==
    DOMAIN RegionGet(max_valid_n_per_max_tokens, rk)
      \cup DOMAIN RegionGet(min_invalid_n_per_max_tokens, rk)

\* the regions of the region index
IndexedRegions ==
    DOMAIN max_valid_n_per_max_tokens \cup DOMAIN min_invalid_n_per_max_tokens

\* lookupMaxValid(rk, mt) is defined by an entry of the index, not by its
\* default
HasValidEntry(rk, mt) ==
    \E k \in DOMAIN RegionGet(max_valid_n_per_max_tokens, rk) : k >= mt

MarkedNs(kind, rk, mt) ==
    {m[4] : m \in {x \in marks : /\ x[1] = kind /\ x[2] = rk
                                  /\ IF kind = "valid" THEN x[3] >= mt
                                     ELSE x[3] <= mt}}

\* the regions that were marked, and one that never is
ProbedRegions ==
    IndexedRegions \cup {m[2] : m \in marks} \cup {<<"none", 0, None>>}

\* the max_tokens of the marks of region rk, with those next to them
ProbedMaxTokens(rk) ==
    LET ks == IndexedMaxTokens(rk) \cup {m[3] : m \in {x \in marks : x[2] = rk}}
    IN  {1} \cup ks \cup {k - 1 : k \in ks} \cup {k + 1 : k \in ks}

\* C19 (queries against the update history): since tune reset the index,
\* lookupMaxValid(rk, mt) is the maximum n over the valid marks (rk, k, n)
\* with k >= mt, or 1 if there is none, and lookupMinInvalid(rk, mt) is
\* the minimum n over the invalid marks (rk, k, n) with k <= mt, or absent
\* if there is none; only the marks of rk itself count.
C19_LookupsFollowHistory ==
    \A rk \in ProbedRegions : \A mt \in ProbedMaxTokens(rk) :
        LET vs == MarkedNs("valid", rk, mt)
            ws == MarkedNs("invalid", rk, mt)
        IN  /\ get_max_valid_n(rk, mt) =
                 IF vs = {} THEN 1 ELSE CHOOSE v \in vs : \A w \in vs : w <= v
            /\ get_min_invalid_n(rk, mt) =
                 IF ws = {} THEN None
                 ELSE Some(CHOOSE v \in ws : \A w \in ws : v <= w)

\* C19, witness: one region has a valid mark with n >= 2 and an invalid
\* mark at different max_tokens, so that the lookups at the smaller
\* max_tokens and at the larger one differ from the defaults or from each
\* other.
C19_Witness ==
    \E a \in marks : \E b \in marks :
        /\ a[1] = "valid" /\ b[1] = "invalid" /\ a[2] = b[2]
        /\ a[3] # b[3] /\ a[4] >= 2
        /\ get_max_valid_n(a[2], a[3]) >= 2
        /\ get_max_valid_n(a[2], a[3] + 1) < get_max_valid_n(a[2], a[3])
        /\ get_min_invalid_n(a[2], b[3]) # None
        /\ get_min_invalid_n(a[2], b[3] - 1) # get_min_invalid_n(a[2], b[3])

\* marks were made in two regions
TwoRegionsMarked == \E a \in marks : \E b \in marks : a[2] # b[2]

\* the stages of the call e follow the schedule: they begin at startN,
\* each next one is min(2 * n, configN) and larger than the one before,
\* and the per-call n of a stage is its numCompletions less that of the
\* stage before, or all of it in the first stage and after a data early
\* stop
ScheduleFollowed(e) ==
    /\ e.stages # <<>> => e.stages[1][1] = e.start_n
    /\ \A j \in 1..Len(e.stages) :
          /\ e.stages[j][1] <= e.config_n
          /\ j > 1 => /\ e.stages[j][1] =
                           Min2(2 * e.stages[j - 1][1], e.config_n)
                      /\ e.stages[j][1] > e.stages[j - 1][1]
          /\ e.stages[j][2] =
               e.stages[j][1] - (IF j = 1 \/ e.after_early_stop[j] THEN 0
                                 ELSE e.stages[j - 1][1])

\* startN is configN when the pruning is disabled or configN <= maxValidN
\* (after the lift by the budget), and maxValidN + 1 otherwise
StartNRule(e) ==
    e.stages # <<>>
      => e.start_n = IF ~e.prune \/ e.config_n <= e.entry_max_valid_n
                     THEN e.config_n ELSE e.entry_max_valid_n + 1

StagedWithoutEarlyStop ==
    /\ ev.pc = "idle" /\ last.status = "returned" /\ last.path = "final"
    /\ last.ev.prune /\ Len(last.ev.stages) >= 3
    /\ \E j \in 2..Len(last.ev.stages) :
          /\ ~last.ev.after_early_stop[j]
          /\ last.ev.stages[j][2] = last.ev.stages[j][1] - last.ev.stages[j - 1][1]

ShapeError(args) ==
    \/ DictHas(args, "prompt") /\ DictHas(args, "messages")
    \/ DictHas(args, "messages") /\ DictGet(args, "messages", None).type # "list"
    \/ DictHas(args, "stop")
          /\ DictGet(args, "stop", None).type \notin {"str", "list"}

\* C13 as stated: tune raises an error when the templates it is given
\* have a shape error, before a trial is evaluated and before a remote
\* call is made.
C13_ShapeErrorsRejected ==
    ShapeError(run.args)
      => /\ last.status = "tune_raised"
         /\ ~run.active /\ run.trials = 0 /\ ev.pc = "idle" /\ gr.pc = "none"

(***************************************************************************)
(* Properties of the loops of eval.                                        *)
(***************************************************************************)
\* the requests of the call e, each <<numCompletions, i>>, are in order:
\* numCompletions does not decrease, and within one numCompletions the
\* data instance strictly increases
RequestsOrdered(e) ==
    \A a \in 1..Len(e.requests) : \A b \in 1..Len(e.requests) :
        a < b => /\ e.requests[a][1] <= e.requests[b][1]
                 /\ e.requests[a][1] = e.requests[b][1]
                      => e.requests[a][2] < e.requests[b][2]

\* C21 (call ordering within a trial): the calls of _get_response that one
\* eval issues are ordered by non-decreasing numCompletions and, within
\* one numCompletions stage, by strictly ascending data instance, so that
\* no instance is requested twice in a stage.
C21_CallOrdering ==
    /\ RequestsOrdered(Summary(ev))
    /\ RequestsOrdered(last.ev)
    /\ Len(ev.requests) = ev.n_calls
    /\ ev.pc = "wait" => ev.requests[Len(ev.requests)] = <<ev.num_completions, ev.i>>

\* C21, witness: a call with the pruning enabled on three data instances
\* has returned its final result after two stages, each of which requested
\* the instances 0, 1, 2 over the prefixes 1, 2 and 3 of the data.
C21_Witness ==
    /\ ev.pc = "idle" /\ last.status = "returned" /\ last.path = "final"
    /\ last.ev.prune /\ data_length = 3 /\ Len(last.ev.stages) = 2
    /\ last.ev.stages[1][1] < last.ev.stages[2][1]
    /\ last.ev.requests =
         [j \in 1..6 |-> <<last.ev.stages[(j + 2) \div 3][1], (j - 1) % 3>>]

(***************************************************************************)
(* Properties of the poison in the cache.                                  *)
(***************************************************************************)
\* C22 as stated (write-once poison): once the cache holds the poison for
\* a key, no later step of a call of _get_response, with either value of
\* eval_only, replaces or removes that entry.
C22_PoisonWriteOnce ==
    [][\A k \in DOMAIN cache : HoldsPoison(cache, k) => HoldsPoison(cache', k)]_vars

\* C22, amended: no entry of the cache is ever removed; a call with
\* eval_only = False on a key that holds the poison leaves the cache as it
\* is; and the poison of a key is replaced only when a call with
\* eval_only = True on that key is answered by the endpoint, by that
\* response, while every other entry stays as it is.
C22_PoisonReplacedOnlyWhenServed ==
    [][/\ DOMAIN cache \subseteq DOMAIN cache'
       /\ gr.via = "_get_response" /\ ~gr.eval_only
            /\ HoldsPoison(cache, gr.key) /\ gr.cached = Some(PoisonedFailure)
            => cache' = cache
       /\ \A k \in DOMAIN cache :
            HoldsPoison(cache, k) /\ ~HoldsPoison(cache', k)
               => /\ gr.pc = "try" /\ gr.eval_only /\ gr.key = k
                  /\ gr'.pc = "ret" /\ gr'.remote
                  /\ gr'.response = Some(EndpointResponse(gr.config, verbosity))
                  /\ cache' = CacheSet(cache, k, gr'.response[1])]_vars

\* C22, witness: a call with eval_only = True on a key that an earlier call
\* poisoned has been answered by the endpoint, and the cache now holds the
\* response under that key, next to the entry of another key.
C22_Witness ==
    /\ gr.pc = "ret" /\ gr.via = "_get_response" /\ gr.eval_only
    /\ gr.key \in poisoned /\ gr.cached = Some(PoisonedFailure)
    /\ gr.remote /\ HoldsResponse(cache, gr.key)
    /\ cache[gr.key] = gr.response[1]
    /\ \E k \in DOMAIN cache : k # gr.key

(***************************************************************************)
(* Properties of the pruning.                                              *)
(***************************************************************************)
\* a step of a call of eval: the call begins, or it is under way
EvalActs == ev.pc # "idle" \/ EvalBegins

\* the call of eval that takes the step
Acting == IF ev.pc # "idle" THEN Summary(ev) ELSE Begun

\* the call e was made with eval_only = True, or with prune = False, or
\* while no inference budget is set
PruningOff(e) == e.eval_only \/ ~e.prune_arg \/ inference_budget = None

\* C23 (pruning is confined to tuning with an inference budget): no step
\* of a call of eval with eval_only = True, or with prune = False, or with
\* no inference budget set changes either map of the region index, and
\* such a call returns neither the immediate-prune result nor the
\* over-budget early result, whatever the endpoint returns.
C23_PruningConfined ==
    [][EvalActs /\ PruningOff(Acting)
         => /\ max_valid_n_per_max_tokens' = max_valid_n_per_max_tokens
            /\ min_invalid_n_per_max_tokens' = min_invalid_n_per_max_tokens
            /\ marks' = marks
            /\ ev'.pc = "idle" => last'.path \notin {"pruned", "over_budget"}]_vars

\* C23, witness: while an inference budget is set and the region index
\* holds an invalid n for its region that its own n reaches, a call of eval
\* with prune = False or eval_only = True has been answered by the
\* endpoint and has returned its final result.
C23_Witness ==
    /\ ev.pc = "idle" /\ last.status = "returned" /\ last.path = "final"
    /\ ~last.in_run /\ inference_budget # None
    /\ last.ev.eval_only \/ ~last.ev.prune_arg
    /\ last.ev.n_remote > 0
    /\ LET lowest == get_min_invalid_n(get_region_key(last.ev.config),
                                       last.ev.max_tokens)
       IN  lowest # None /\ last.ev.config_n >= lowest[1]

(***************************************************************************)
(* Properties of the final result of eval.                                 *)
(***************************************************************************)
\* the last call of eval returned a finalised result: the one that carries
\* inference_cost from the branch num_completions == config_n
Finalised ==
    /\ last.status = "returned" /\ last.path = "final"
    /\ DictHas(last.result, "inference_cost")

\* C24 (finalisation completeness): when eval returns a finalised result,
\* eval_func was given the responses of every data instance 0 ..
\* data_length - 1 once (the metric is the sum of its values over all the
\* instances, divided by data_length), and the list of responses of each
\* instance holds exactly config_n responses, also when an earlier stage
\* ended by a data early stop and the tallies were cleared.
C24_FinalisationComplete ==
    Finalised
      => /\ last.ev.data_limit = data_length
         /\ last.ev.num_completions = last.ev.config_n
         /\ last.ev.response_counts =
              [j \in 1..data_length |-> last.ev.config_n]
         /\ DictGet(last.result, metric, Inf) =
              <<SeqSum([j \in 1..data_length |->
                          DictGet(eval_func([c \in 1..last.ev.config_n |-> c],
                                            j - 1), metric, 0)]),
                data_length>>

\* C24, witness: a call with n = 8 has returned a finalised result after a
\* stage that ended by a data early stop, and each of the two instances
\* has 8 responses.
C24_Witness ==
    /\ Finalised /\ ev.pc = "idle" /\ last.ev.prune
    /\ last.ev.config_n = 8 /\ data_length = 2
    /\ \E j \in 2..Len(last.ev.stages) : last.ev.after_early_stop[j]
    /\ last.ev.response_counts = <<8, 8>>

(***************************************************************************)
(* Termination of eval.                                                    *)
(***************************************************************************)
\* the loops of the call under way are within their bounds: the prefix of
\* the data is within the data, numCompletions is within config_n, there
\* are at most config_n stages, and each stage has requested each data
\* instance at most once
LoopsBounded ==
    ev.pc # "idle"
      => /\ 1 <= ev.data_limit /\ ev.data_limit <= data_length
         /\ ev.prev_data_limit < ev.data_limit
         /\ 1 <= ev.num_completions /\ ev.num_completions <= ev.config_n
         /\ Len(ev.stages) <= ev.config_n
         /\ ev.n_calls <= data_length * Len(ev.stages)

\* C25 (termination of a trial): provided every call of _get_response
\* returns, a call of eval on a config with config_n >= 1 and data that is
\* not empty ends after finitely many calls: the prefix of the data grows
\* up to the data and numCompletions up to config_n, within at most
\* data_length requests for each stage, and the call returns or raises.
C25_TrialTerminates ==
    /\ []LoopsBounded
    /\ (ev.pc # "idle") ~> (ev.pc = "idle")

\* C25, witness: a call on three data instances has ended with its final
\* result after two stages and six calls of _get_response, of which at
\* least one went to the endpoint.
C25_Witness ==
    /\ ev.pc = "idle" /\ last.status = "returned" /\ last.path = "final"
    /\ data_length = 3 /\ last.ev.config_n >= 3
    /\ Len(last.ev.stages) = 2 /\ last.ev.n_calls = 6
    /\ last.ev.n_remote >= 1

====
